---- MODULE Spec2Model ----
(***************************************************************************)
(* tokio-console-web: the subscription registry (ConsoleSubscriptions),    *)
(* the reducer task (subscribe_to_console_updates) and the entity model    *)
(* of src/src/state.rs.                                                    *)
(*                                                                         *)
(* Options are sequences: None is <<>>, Some(x) is <<x>>.  Maps are        *)
(* functions whose DOMAIN is the key set.  Wall-clock times are whole      *)
(* seconds.                                                                *)
(***************************************************************************)
EXTENDS Integers, Sequences, FiniteSets, TLC

None == <<>>
Some(x) == <<x>>
IsSome(o) == o # <<>>
Unwrap(o) == o[1]

EmptyMap == [x \in {} |-> x]

\* HashMap::insert / BTreeMap::insert: replaces any previous value at k.
MapInsert(m, k, v) == [x \in DOMAIN m \cup {k} |-> IF x = k THEN v ELSE m[x]]

\* HashMap::remove
MapRemove(m, k) == [x \in DOMAIN m \ {k} |-> m[x]]

Ok(v) == [ok |-> TRUE, val |-> v]
Err(msg) == [ok |-> FALSE, val |-> msg]

----------------------------------------------------------------------------
(* Bounds of the model *)

MaxKeys == 5     \* calls made on one TableViewKeybinds
MaxRows == 2     \* largest row count clamp_selected_idx is given
UsizeBits == 2   \* width of usize
MaxPoll == 3     \* largest poll time of a task a method is called on
NumPages == 2    \* page views opened in the runs of the session layer
NumCallers == 2      \* calls of subscribe in one run, each by a caller of its own
MaxMsgs == 1         \* messages one upstream stream delivers before it ends
MaxDeltas == 3       \* messages the stream delivers in the runs of one reducer
MaxTicks == 1        \* seconds the wall clock advances during a run
MaxSends == 2        \* messages the stream delivers in the runs with readers

\* Duration::from_secs(5) in both retain closures
GraceSecs == 5

Callers == 1 .. NumCallers

\* The clock starts where a dropped_at of 0 is exactly GraceSecs in the past.
Now0 == GraceSecs
MaxNow == Now0 + MaxTicks

\* dropped_at values an upstream sends: exactly the grace window before Now0,
\* one second inside it, and later than any reducer clock reading.
DropTimes == {0, 1, MaxNow + 1}

TaskIds == {1}
ResourceIds == {1}
MetaIds == {7}
Targets == {"svc.a", "svc.b"}

----------------------------------------------------------------------------
(* Registry keys: ConsoleAddr { ip, port }, compared field by field as      *)
(* strings.                                                                *)

Addr(ip, port) == [ip |-> ip, port |-> port]

\* The argument slot of a caller that is not inside a call
NoAddr == Addr("", "")

Addrs == {Addr("127.0.0.1", "6669"), Addr("127.0.0.1", "06669"), Addr("bad host", "6669")}

\* format!("http://{}:{}", addr.ip, addr.port).parse::<Endpoint>(): the URI
\* parser rejects an authority holding a space.
EndpointParses(addr) == addr.ip # "bad host"

----------------------------------------------------------------------------
(* Entity model and conversions from the wire types                        *)

\* prost Timestamp -> SystemTime, at whole-second granularity
SystemTimeFrom(ts) == ts.seconds

Timestamp(s) == [seconds |-> s, nanos |-> 0]

\* Option<Timestamp>.map(SystemTime::try_from).transpose()
OptSystemTime(o) == IF IsSome(o) THEN Some(SystemTimeFrom(Unwrap(o))) ELSE None

\* impl TryFrom<console_api::Location> for Location
LocationFrom(location) ==
    IF ~IsSome(location.file) THEN Err("Missing file field")
    ELSE IF ~IsSome(location.line) THEN Err("Missing line field")
    ELSE IF ~IsSome(location.column) THEN Err("Missing column field")
    ELSE Ok([file |-> Unwrap(location.file),
             module_path |-> location.module_path,
             line |-> Unwrap(location.line),
             column |-> Unwrap(location.column)])

\* (mutant) a new task starts with an empty target instead of none
TaskFromEmptyTarget(task) ==
    IF ~IsSome(task.id) THEN Err("Missing id field")
    ELSE IF ~IsSome(task.metadata) THEN Err("Missing metadata field")
    ELSE IF ~IsSome(task.location) THEN Err("Missing location field")
    ELSE LET location == LocationFrom(Unwrap(task.location))
         IN  IF ~location.ok THEN location
             ELSE Ok([id |-> Unwrap(task.id),
                      location |-> location.val,
                      stats |-> None,
                      metadata_id |-> Unwrap(task.metadata),
                      target |-> Some("")])

\* impl TryFrom<console_api::tasks::Task> for Task
TaskFrom(task) ==
    IF ~IsSome(task.id) THEN Err("Missing id field")
    ELSE IF ~IsSome(task.metadata) THEN Err("Missing metadata field")
    ELSE IF ~IsSome(task.location) THEN Err("Missing location field")
    ELSE LET location == LocationFrom(Unwrap(task.location))
         IN  IF ~location.ok THEN location
             ELSE Ok([id |-> Unwrap(task.id),
                      location |-> location.val,
                      stats |-> None,
                      metadata_id |-> Unwrap(task.metadata),
                      target |-> None])

\* impl TryFrom<console_api::register_metadata::NewMetadata> for Metadata
MetadataFrom(meta) ==
    IF ~IsSome(meta.id) THEN Err("Missing id field")
    ELSE IF ~IsSome(meta.metadata) THEN Err("Missing meta field")
    ELSE Ok([id |-> Unwrap(meta.id),
             name |-> Unwrap(meta.metadata).name,
             target |-> Unwrap(meta.metadata).target])

\* impl TryFrom<console_api::tasks::Stats> for TaskStats
TaskStatsFrom(stats) ==
    IF ~IsSome(stats.poll_stats) THEN Err("Missing poll_stats field")
    ELSE LET poll_stats == Unwrap(stats.poll_stats)
         IN  Ok([dropped_at |-> OptSystemTime(stats.dropped_at),
                 created_at |-> OptSystemTime(stats.created_at),
                 polls |-> poll_stats.polls,
                 busy_time |-> poll_stats.busy_time,
                 last_poll_started |-> poll_stats.last_poll_started,
                 last_poll_ended |-> poll_stats.last_poll_ended])

\* impl TryFrom<console_api::resources::Resource> for Resource
ResourceFrom(resource) ==
    IF ~IsSome(resource.id) THEN Err("Missing id field")
    ELSE IF ~IsSome(resource.metadata) THEN Err("Missing metadata field")
    ELSE IF ~IsSome(resource.kind) THEN Err("Missing kind field")
    ELSE IF ~IsSome(Unwrap(resource.kind)) THEN Err("Missing kind.kind")
    ELSE LET kind == Unwrap(Unwrap(resource.kind))
             location == IF IsSome(resource.location)
                         THEN LocationFrom(Unwrap(resource.location))
                         ELSE Ok(None)
         IN  IF ~location.ok THEN location
             ELSE Ok([id |-> Unwrap(resource.id),
                      metadata_id |-> Unwrap(resource.metadata),
                      vis |-> IF resource.is_internal THEN "Internal" ELSE "Public",
                      parent_id |-> resource.parent_resource_id,
                      kind |-> IF kind.known THEN "Timer" ELSE kind.other,
                      concrete_type |-> resource.concrete_type,
                      location |-> IF IsSome(resource.location)
                                   THEN Some(location.val) ELSE None,
                      target |-> None,
                      stats |-> None])

\* impl TryFrom<console_api::resources::Stats> for ResourceStats
ResourceStatsFrom(stats) ==
    Ok([dropped_at |-> OptSystemTime(stats.dropped_at),
        created_at |-> OptSystemTime(stats.created_at)])

\* (mutant) a comparison with a missing value is false
OptionGtPresentOnly(a, b) == IsSome(a) /\ IsSome(b) /\ Unwrap(a) > Unwrap(b)

\* a > b on Option<Duration>: the derived ordering puts None below every Some
OptionGt(a, b) ==
    IF IsSome(a) THEN (IF IsSome(b) THEN Unwrap(a) > Unwrap(b) ELSE TRUE)
    ELSE FALSE

\* Task::is_completed
is_completed(task) ==
    IF IsSome(task.stats) THEN IsSome(Unwrap(task.stats).dropped_at) ELSE FALSE

\* Task::is_running
is_running(task) ==
    IF IsSome(task.stats)
    THEN OptionGt(Unwrap(task.stats).last_poll_started, Unwrap(task.stats).last_poll_ended)
    ELSE FALSE

\* Task::state
TaskState(task) ==
    IF is_completed(task) THEN "Completed"
    ELSE IF is_running(task) THEN "Running"
    ELSE "Idle"

\* new_resources.into_iter().map(Resource::try_from).collect::<Result<_>>()?
RECURSIVE ConvertResources(_)
ConvertResources(new_resources) ==
    IF new_resources = <<>> THEN Ok(<<>>)
    ELSE LET r == ResourceFrom(Head(new_resources))
             rest == ConvertResources(Tail(new_resources))
         IN  IF ~r.ok THEN r
             ELSE IF ~rest.ok THEN rest
             ELSE Ok(<<r.val>> \o rest.val)

\* ConsoleState::default()
DefaultConsoleState == [tasks |-> EmptyMap, resources |-> EmptyMap, metadata |-> EmptyMap]

----------------------------------------------------------------------------
(* The reducer's per-message algorithm (the body of the while-let loop of   *)
(* subscribe_to_console_updates), one operator per step                    *)

\* (mutant) an id that is already stored keeps its first value
RECURSIVE FoldMetadataKeepsFirst(_, _)
FoldMetadataKeepsFirst(metadata, new_metadata) ==
    IF new_metadata = <<>> THEN Ok(metadata)
    ELSE LET m == MetadataFrom(Head(new_metadata))
         IN  IF ~m.ok THEN m
             ELSE IF m.val.id \in DOMAIN metadata
             THEN FoldMetadataKeepsFirst(metadata, Tail(new_metadata))
             ELSE FoldMetadataKeepsFirst(MapInsert(metadata, m.val.id, m.val),
                                         Tail(new_metadata))

\* for new_metadata in new_metadata.unwrap_or_default().metadata { ... }
RECURSIVE FoldMetadata(_, _)
FoldMetadata(metadata, new_metadata) ==
    IF new_metadata = <<>> THEN Ok(metadata)
    ELSE LET m == MetadataFrom(Head(new_metadata))
         IN  IF ~m.ok THEN m
             ELSE FoldMetadata(MapInsert(metadata, m.val.id, m.val), Tail(new_metadata))

\* (mutant) a new task that fails to convert is skipped
RECURSIVE InsertTasksSkipsInvalid(_, _)
InsertTasksSkipsInvalid(tasks, new_tasks) ==
    IF new_tasks = <<>> THEN Ok(tasks)
    ELSE LET t == TaskFrom(Head(new_tasks))
         IN  IF ~t.ok THEN InsertTasksSkipsInvalid(tasks, Tail(new_tasks))
             ELSE InsertTasksSkipsInvalid(MapInsert(tasks, t.val.id, t.val),
                                          Tail(new_tasks))

\* (mutant) a task announced again keeps the stats it had
RECURSIVE InsertTasksKeepsStats(_, _)
InsertTasksKeepsStats(tasks, new_tasks) ==
    IF new_tasks = <<>> THEN Ok(tasks)
    ELSE LET t == TaskFrom(Head(new_tasks))
         IN  IF ~t.ok THEN t
             ELSE InsertTasksKeepsStats(
                     MapInsert(tasks, t.val.id,
                               IF t.val.id \in DOMAIN tasks
                               THEN [t.val EXCEPT !.stats = tasks[t.val.id].stats]
                               ELSE t.val),
                     Tail(new_tasks))

\* for new_task in new_tasks { state.tasks.insert(task.id, Task::try_from(new_task)?) }
RECURSIVE InsertTasks(_, _)
InsertTasks(tasks, new_tasks) ==
    IF new_tasks = <<>> THEN Ok(tasks)
    ELSE LET t == TaskFrom(Head(new_tasks))
         IN  IF ~t.ok THEN t
             ELSE InsertTasks(MapInsert(tasks, t.val.id, t.val), Tail(new_tasks))

\* (mutant) an entry for an id that is not in the map is an error
ApplyTaskStatsRejectsUnknown(tasks, stats_update) ==
    IF \E id \in DOMAIN stats_update : ~TaskStatsFrom(stats_update[id]).ok
    THEN Err("Missing poll_stats field")
    ELSE IF ~(DOMAIN stats_update \subseteq DOMAIN tasks)
    THEN Err("unknown task")
    ELSE Ok([id \in DOMAIN tasks |->
               IF id \in DOMAIN stats_update
               THEN [tasks[id] EXCEPT !.stats = Some(TaskStatsFrom(stats_update[id]).val)]
               ELSE tasks[id]])

\* for (id, stats) in stats_update { ... task.stats = Some(stats) }: every entry is
\* converted, an entry for an id not in the map is dropped.
ApplyTaskStats(tasks, stats_update) ==
    IF \E id \in DOMAIN stats_update : ~TaskStatsFrom(stats_update[id]).ok
    THEN Err("Missing poll_stats field")
    ELSE Ok([id \in DOMAIN tasks |->
               IF id \in DOMAIN stats_update
               THEN [tasks[id] EXCEPT !.stats = Some(TaskStatsFrom(stats_update[id]).val)]
               ELSE tasks[id]])

\* (mutant) a target that is already set is left alone
ResolveTaskTargetsOnce(tasks, metadata) ==
    [id \in DOMAIN tasks |->
       IF tasks[id].metadata_id \in DOMAIN metadata /\ ~IsSome(tasks[id].target)
       THEN [tasks[id] EXCEPT !.target = Some(metadata[tasks[id].metadata_id].target)]
       ELSE tasks[id]]

\* for task in state.tasks.values_mut() { if let Some(metadata) = ... }
ResolveTaskTargets(tasks, metadata) ==
    [id \in DOMAIN tasks |->
       IF tasks[id].metadata_id \in DOMAIN metadata
       THEN [tasks[id] EXCEPT !.target = Some(metadata[tasks[id].metadata_id].target)]
       ELSE tasks[id]]

\* for new_resource in new_resources { state.resources.insert(...) }
RECURSIVE InsertResources(_, _)
InsertResources(resources, new_resources) ==
    IF new_resources = <<>> THEN Ok(resources)
    ELSE LET r == ResourceFrom(Head(new_resources))
         IN  IF ~r.ok THEN r
             ELSE InsertResources(MapInsert(resources, r.val.id, r.val), Tail(new_resources))

\* for (id, stats) in stats_update { ... task.stats = Some(stats) } (resources)
ApplyResourceStats(resources, stats_update) ==
    IF \E id \in DOMAIN stats_update : ~ResourceStatsFrom(stats_update[id]).ok
    THEN Err("invalid timestamp")
    ELSE Ok([id \in DOMAIN resources |->
               IF id \in DOMAIN stats_update
               THEN [resources[id] EXCEPT
                       !.stats = Some(ResourceStatsFrom(stats_update[id]).val)]
               ELSE resources[id]])

\* for resource in state.resources.values_mut() { if let Some(metadata) = ... }
ResolveResourceTargets(resources, metadata) ==
    [id \in DOMAIN resources |->
       IF resources[id].metadata_id \in DOMAIN metadata
       THEN [resources[id] EXCEPT
               !.target = Some(metadata[resources[id].metadata_id].target)]
       ELSE resources[id]]

\* SystemTime::elapsed(): Err when the time is later than the clock
Elapsed(t, now) == IF t > now THEN Err("SystemTimeError") ELSE Ok(now - t)

\* (mutant) the grace window is closed at its upper end
RetainInclusive(entity, now) ==
    IF IsSome(entity.stats)
    THEN IF IsSome(Unwrap(entity.stats).dropped_at)
         THEN LET e == Elapsed(Unwrap(Unwrap(entity.stats).dropped_at), now)
              IN  IF ~e.ok THEN "panic"
                  ELSE IF e.val <= GraceSecs THEN "keep" ELSE "reap"
         ELSE "keep"
    ELSE "keep"

\* (mutant) an entity that has stats without dropped_at is reaped
RetainDropsUnstamped(entity, now) ==
    IF IsSome(entity.stats)
    THEN IF IsSome(Unwrap(entity.stats).dropped_at)
         THEN LET e == Elapsed(Unwrap(Unwrap(entity.stats).dropped_at), now)
              IN  IF ~e.ok THEN "panic"
                  ELSE IF e.val < GraceSecs THEN "keep" ELSE "reap"
         ELSE "reap"
    ELSE "keep"

\* The retain closure: "keep", "reap", or "panic" (elapsed().unwrap() on an Err)
Retain(entity, now) ==
    IF IsSome(entity.stats)
    THEN IF IsSome(Unwrap(entity.stats).dropped_at)
         THEN LET e == Elapsed(Unwrap(Unwrap(entity.stats).dropped_at), now)
              IN  IF ~e.ok THEN "panic"
                  ELSE IF e.val < GraceSecs THEN "keep" ELSE "reap"
         ELSE "keep"
    ELSE "keep"

\* state.tasks.retain(...) / state.resources.retain(...)
Reap(entities, now) ==
    IF \E id \in DOMAIN entities : Retain(entities[id], now) = "panic"
    THEN Err("panic")
    ELSE Ok([id \in {i \in DOMAIN entities : Retain(entities[i], now) = "keep"} |->
               entities[id]])

\* A ? that returns Err(error) from inside the loop: working is the local state
\* it abandons, with the steps of the message completed before it.
Failed(error, working) == [ok |-> FALSE, val |-> error, working |-> working]

\* One iteration of the loop up to, not including, tx.send: the outcome is
\* "ok" (state is what is published, pre_reap the state before the retain
\* calls), "err" (a ? returned error; state is the abandoned local state) or
\* "panic".
Outcome(kind, state, pre_reap, error) ==
    [kind |-> kind, state |-> state, pre_reap |-> pre_reap, error |-> error]

\* (mutant) a missing task_update is read as an empty one
ReduceTasksDefaultsMissing(state, msg) ==
    LET task_update == IF IsSome(msg.task_update) THEN Unwrap(msg.task_update)
                       ELSE [new_tasks |-> <<>>, stats_update |-> EmptyMap]
        inserted == InsertTasks(state.tasks, task_update.new_tasks)
    IN  IF ~inserted.ok THEN Failed(inserted.val, state)
        ELSE LET updated == ApplyTaskStats(inserted.val, task_update.stats_update)
             IN  IF ~updated.ok
                 THEN Failed(updated.val, [state EXCEPT !.tasks = inserted.val])
                 ELSE Ok([state EXCEPT
                            !.tasks = ResolveTaskTargets(updated.val, state.metadata)])

\* (mutant) the stats loop runs before the loop that inserts the new tasks
ReduceTasksStatsFirst(state, msg) ==
    IF ~IsSome(msg.task_update) THEN Failed("Missing task_update field", state)
    ELSE LET task_update == Unwrap(msg.task_update)
             updated == ApplyTaskStats(state.tasks, task_update.stats_update)
         IN  IF ~updated.ok THEN Failed(updated.val, state)
             ELSE LET inserted == InsertTasks(updated.val, task_update.new_tasks)
                  IN  IF ~inserted.ok
                      THEN Failed(inserted.val, [state EXCEPT !.tasks = updated.val])
                      ELSE Ok([state EXCEPT
                                 !.tasks = ResolveTaskTargets(inserted.val, state.metadata)])

ReduceTasks(state, msg) ==
    IF ~IsSome(msg.task_update) THEN Failed("Missing task_update field", state)
    ELSE LET task_update == Unwrap(msg.task_update)
             inserted == InsertTasks(state.tasks, task_update.new_tasks)
         IN  IF ~inserted.ok THEN Failed(inserted.val, state)
             ELSE LET updated == ApplyTaskStats(inserted.val, task_update.stats_update)
                  IN  IF ~updated.ok
                      THEN Failed(updated.val, [state EXCEPT !.tasks = inserted.val])
                      ELSE Ok([state EXCEPT
                                 !.tasks = ResolveTaskTargets(updated.val, state.metadata)])

ReduceResources(state, msg) ==
    IF ~IsSome(msg.resource_update) THEN Failed("Missing resource_update field", state)
    ELSE LET resource_update == Unwrap(msg.resource_update)
             inserted == InsertResources(state.resources, resource_update.new_resources)
         IN  IF ~inserted.ok THEN Failed(inserted.val, state)
             ELSE LET updated == ApplyResourceStats(inserted.val, resource_update.stats_update)
                  IN  IF ~updated.ok
                      THEN Failed(updated.val, [state EXCEPT !.resources = inserted.val])
                      ELSE Ok([state EXCEPT
                                 !.resources =
                                    ResolveResourceTargets(updated.val, state.metadata)])

Reduce(state, msg, now) ==
    LET metadata == FoldMetadata(state.metadata,
                                 IF IsSome(msg.new_metadata)
                                 THEN Unwrap(msg.new_metadata).metadata ELSE <<>>)
    IN  IF ~metadata.ok THEN Outcome("err", state, state, metadata.val)
        ELSE LET s1 == ReduceTasks([state EXCEPT !.metadata = metadata.val], msg)
             IN  IF ~s1.ok THEN Outcome("err", s1.working, state, s1.val)
                 ELSE LET s2 == ReduceResources(s1.val, msg)
                      IN  IF ~s2.ok THEN Outcome("err", s2.working, state, s2.val)
                          ELSE LET tasks == Reap(s2.val.tasks, now)
                                   resources == Reap(s2.val.resources, now)
                               IN  IF ~tasks.ok \/ ~resources.ok
                                   THEN Outcome("panic", state, s2.val, "SystemTimeError")
                                   ELSE Outcome("ok",
                                                [s2.val EXCEPT !.tasks = tasks.val,
                                                               !.resources = resources.val],
                                                s2.val, "")

----------------------------------------------------------------------------
(* The resources page: resources_index::Update and the ResourcesIndex view  *)

\* impl TryFrom<console_api::instrument::Update> for resources_index::Update
UpdateFrom(update) ==
    IF ~IsSome(update.resource_update) THEN Err("Missing resource_update field")
    ELSE LET resource_update == Unwrap(update.resource_update)
             new_resources == ConvertResources(resource_update.new_resources)
             new_metadata == FoldMetadata(EmptyMap,
                                          IF IsSome(update.new_metadata)
                                          THEN Unwrap(update.new_metadata).metadata
                                          ELSE <<>>)
             stats_update == resource_update.stats_update
         IN  IF ~new_resources.ok THEN new_resources
             ELSE IF ~new_metadata.ok THEN new_metadata
             ELSE IF \E id \in DOMAIN stats_update : ~ResourceStatsFrom(stats_update[id]).ok
             THEN Err("invalid timestamp")
             ELSE Ok([new_resources |-> new_resources.val,
                      new_metadata |-> new_metadata.val,
                      stats_update |-> [id \in DOMAIN stats_update |->
                                          ResourceStatsFrom(stats_update[id]).val]])

\* for resources in new_resources { self.state.resources.insert(resources.id, resources) }
RECURSIVE InsertConverted(_, _)
InsertConverted(resources, new_resources) ==
    IF new_resources = <<>> THEN resources
    ELSE InsertConverted(MapInsert(resources, Head(new_resources).id, Head(new_resources)),
                         Tail(new_resources))

\* The Msg::Update arm of ResourcesIndex::update, up to the retain call, which
\* panics (elapsed().unwrap()) on a dropped_at later than the clock
ApplyUpdate(state, update, now) ==
    LET inserted == InsertConverted(state.resources, update.new_resources)
        metadata == [id \in DOMAIN state.metadata \cup DOMAIN update.new_metadata |->
                       IF id \in DOMAIN update.new_metadata
                       THEN update.new_metadata[id] ELSE state.metadata[id]]
        updated == [id \in DOMAIN inserted |->
                      IF id \in DOMAIN update.stats_update
                      THEN [inserted[id] EXCEPT !.stats = Some(update.stats_update[id])]
                      ELSE inserted[id]]
        retained == Reap(ResolveResourceTargets(updated, metadata), now)
    IN  IF ~retained.ok THEN retained
        ELSE Ok([resources |-> retained.val, metadata |-> metadata])

TogglePlayPause == [kind |-> "TogglePlayPause"]
RowClick(resource_id) == [kind |-> "RowClick", resource_id |-> resource_id]
MsgUpdate(update) == [kind |-> "Update", update |-> update]

\* (mutant) an Update that arrives while the view is paused is dropped
HandleMsgPausedSkipsUpdate(view, msg, now) ==
    IF msg.kind = "TogglePlayPause"
    THEN [view EXCEPT !.paused_state = IF IsSome(@) THEN None ELSE Some(view.state)]
    ELSE IF msg.kind = "RowClick" THEN view
    ELSE IF IsSome(view.paused_state) THEN view
    ELSE LET applied == ApplyUpdate(view.state, msg.update, now)
         IN  IF applied.ok THEN [view EXCEPT !.state = applied.val]
             ELSE [view EXCEPT !.panicked = TRUE]

\* ResourcesIndex::update: the view after it has handled msg
HandleMsg(view, msg, now) ==
    IF msg.kind = "TogglePlayPause"
    THEN [view EXCEPT !.paused_state = IF IsSome(@) THEN None ELSE Some(view.state)]
    ELSE IF msg.kind = "RowClick" THEN view
    ELSE LET applied == ApplyUpdate(view.state, msg.update, now)
         IN  IF applied.ok THEN [view EXCEPT !.state = applied.val]
             ELSE [view EXCEPT !.panicked = TRUE]

\* The markup of a state: "Loading..." when it has no resources, else the
\* Play or Pause button and one row per resource
Html(state, paused) ==
    IF state.resources = EmptyMap THEN [loading |-> TRUE]
    ELSE [loading |-> FALSE,
          button |-> IF paused THEN "Play" ELSE "Pause",
          rows |-> state.resources]

\* ResourcesIndex::render
Render(view) ==
    Html(IF IsSome(view.paused_state) THEN Unwrap(view.paused_state) ELSE view.state,
         IsSome(view.paused_state))

----------------------------------------------------------------------------
(* Upstream messages (console_api::instrument::Update) the model draws from *)

WireLocation == [file |-> Some("src/x.rs"), module_path |-> None,
                 line |-> Some(10), column |-> Some(2)]

WireTask(id, meta, location) == [id |-> id, metadata |-> meta, location |-> location]

WireResource(id, meta, kind) ==
    [id |-> id, metadata |-> meta, kind |-> kind, is_internal |-> FALSE,
     parent_resource_id |-> None, concrete_type |-> "Sleep", location |-> None]

WireNewMetadata(id, target) ==
    [id |-> Some(id), metadata |-> Some([name |-> "n", target |-> target])]

WirePollStats == [polls |-> 0, busy_time |-> None,
                  last_poll_started |-> None, last_poll_ended |-> None]

WireTaskStats(dropped_at, poll_stats) ==
    [created_at |-> None, dropped_at |-> dropped_at, poll_stats |-> poll_stats]

WireResourceStats(dropped_at) == [created_at |-> None, dropped_at |-> dropped_at]

WireDroppedAt == {None} \cup {Some(Timestamp(t)) : t \in DropTimes}

WireUpdate(new_metadata, task_update, resource_update) ==
    [new_metadata |-> new_metadata, task_update |-> task_update,
     resource_update |-> resource_update]

NewMetadataChoices ==
    {None}
    \cup {Some([metadata |-> <<WireNewMetadata(m, t)>>]) : m \in MetaIds, t \in Targets}

NewTasksChoices ==
    {<<>>}
    \cup {<<WireTask(Some(i), Some(m), Some(WireLocation))>> : i \in TaskIds, m \in MetaIds}

TaskStatsChoices ==
    {EmptyMap}
    \cup {[j \in {i} |-> WireTaskStats(d, Some(WirePollStats))] :
            i \in TaskIds, d \in WireDroppedAt}

TaskUpdateChoices ==
    {Some([new_tasks |-> n, stats_update |-> s]) :
       n \in NewTasksChoices, s \in TaskStatsChoices}

WireKindTimer == Some(Some([known |-> TRUE, other |-> ""]))

NewResourcesChoices ==
    {<<>>}
    \cup {<<WireResource(Some(i), Some(m), WireKindTimer)>> :
            i \in ResourceIds, m \in MetaIds}

ResourceStatsChoices ==
    {EmptyMap}
    \cup {[j \in {i} |-> WireResourceStats(d)] : i \in ResourceIds, d \in WireDroppedAt}

ResourceUpdateChoices ==
    {Some([new_resources |-> n, stats_update |-> s]) :
       n \in NewResourcesChoices, s \in ResourceStatsChoices}

\* Messages every field of which converts
ValidUpdates ==
    {WireUpdate(m, t, r) :
       m \in NewMetadataChoices, t \in TaskUpdateChoices, r \in ResourceUpdateChoices}

EmptyTaskUpdate == Some([new_tasks |-> <<>>, stats_update |-> EmptyMap])
EmptyResourceUpdate == Some([new_resources |-> <<>>, stats_update |-> EmptyMap])

\* The three kinds of message the registry runs use: one that folds and is
\* published, one that fails to convert, one whose dropped_at is later than
\* the reducer's clock.
EmptyUpdate == WireUpdate(None, EmptyTaskUpdate, EmptyResourceUpdate)
MissingTaskUpdate == WireUpdate(None, None, EmptyResourceUpdate)
FutureDropUpdate ==
    WireUpdate(None,
               Some([new_tasks |-> <<WireTask(Some(1), Some(7), Some(WireLocation))>>,
                     stats_update |->
                       [j \in {1} |-> WireTaskStats(Some(Timestamp(MaxNow + 1)),
                                                    Some(WirePollStats))]]),
               EmptyResourceUpdate)

\* Messages that lack a required field, after fields that convert
InvalidUpdates ==
    LET meta == Some([metadata |-> <<WireNewMetadata(7, "svc.a")>>])
        task == <<WireTask(Some(1), Some(7), Some(WireLocation))>>
        resource == <<WireResource(Some(1), Some(7), WireKindTimer)>>
    IN  { MissingTaskUpdate,
          WireUpdate(meta, EmptyTaskUpdate, None),
          WireUpdate(Some([metadata |-> <<[id |-> None, metadata |-> None]>>]),
                     EmptyTaskUpdate, EmptyResourceUpdate),
          WireUpdate(meta,
                     Some([new_tasks |-> <<WireTask(Some(1), Some(7), None)>>,
                           stats_update |-> EmptyMap]),
                     EmptyResourceUpdate),
          WireUpdate(meta,
                     Some([new_tasks |-> task,
                           stats_update |-> [j \in {1} |-> WireTaskStats(None, None)]]),
                     EmptyResourceUpdate),
          WireUpdate(meta,
                     Some([new_tasks |-> task, stats_update |-> EmptyMap]),
                     Some([new_resources |-> <<WireResource(Some(1), Some(7), None)>>,
                           stats_update |-> EmptyMap])) }

\* Every message of the bounded protocol
AllUpdates == ValidUpdates \cup InvalidUpdates

MissingResourceUpdate == WireUpdate(None, EmptyTaskUpdate, None)

RegistryUpdates ==
    {EmptyUpdate, MissingTaskUpdate, MissingResourceUpdate, FutureDropUpdate}

\* Stats entries without dropped_at, and with a dropped_at one second inside the
\* grace window at Now0
WireLiveTaskStats == WireTaskStats(None, Some(WirePollStats))
WireDroppedTaskStats == WireTaskStats(Some(Timestamp(1)), Some(WirePollStats))

\* Messages that convert, chosen so that the steps of the loop meet: an
\* announcement with its metadata, stats for a known and a never announced id,
\* an announcement with stats in the same message, a bare re-announcement, a
\* metadata overwrite, and a message that carries nothing.
AnnounceUpdate ==
    WireUpdate(Some([metadata |-> <<WireNewMetadata(7, "svc.a")>>]),
               Some([new_tasks |-> <<WireTask(Some(1), Some(7), Some(WireLocation))>>,
                     stats_update |-> EmptyMap]),
               Some([new_resources |-> <<WireResource(Some(1), Some(7), WireKindTimer)>>,
                     stats_update |-> EmptyMap]))

StatsUpdate ==
    WireUpdate(None,
               Some([new_tasks |-> <<>>,
                     stats_update |-> [j \in {1, 2} |-> WireLiveTaskStats]]),
               Some([new_resources |-> <<>>,
                     stats_update |-> [j \in {1, 2} |-> WireResourceStats(None)]]))

AnnounceWithStatsUpdate ==
    WireUpdate(None,
               Some([new_tasks |-> <<WireTask(Some(1), Some(7), Some(WireLocation))>>,
                     stats_update |-> [j \in {1} |-> WireDroppedTaskStats]]),
               Some([new_resources |-> <<WireResource(Some(1), Some(7), WireKindTimer)>>,
                     stats_update |->
                       [j \in {1} |-> WireResourceStats(Some(Timestamp(1)))]]))

ReannounceUpdate ==
    WireUpdate(None,
               Some([new_tasks |-> <<WireTask(Some(1), Some(7), Some(WireLocation))>>,
                     stats_update |-> EmptyMap]),
               Some([new_resources |-> <<WireResource(Some(1), Some(7), WireKindTimer)>>,
                     stats_update |-> EmptyMap]))

RetargetUpdate ==
    WireUpdate(Some([metadata |-> <<WireNewMetadata(7, "svc.b")>>]),
               EmptyTaskUpdate, EmptyResourceUpdate)

FoldValidUpdates ==
    {AnnounceUpdate, StatsUpdate, AnnounceWithStatsUpdate, ReannounceUpdate,
     RetargetUpdate, EmptyUpdate}

\* A stats entry without poll_stats for an id that was never announced
UnknownBadStatsUpdate ==
    WireUpdate(None,
               Some([new_tasks |-> <<>>,
                     stats_update |-> [j \in {2} |-> WireTaskStats(None, None)]]),
               EmptyResourceUpdate)

\* One message per structurally required field, lacking that field, each after
\* parts that convert
MalformedUpdates ==
    LET meta == Some([metadata |-> <<WireNewMetadata(7, "svc.a")>>])
        task == WireTask(Some(1), Some(7), Some(WireLocation))
        resource == WireResource(Some(1), Some(7), WireKindTimer)
        WithMeta(m) == WireUpdate(Some([metadata |-> <<m>>]),
                                  EmptyTaskUpdate, EmptyResourceUpdate)
        WithTask(t) == WireUpdate(meta,
                                  Some([new_tasks |-> <<t>>, stats_update |-> EmptyMap]),
                                  EmptyResourceUpdate)
        WithTaskStats(st) == WireUpdate(meta,
                                        Some([new_tasks |-> <<task>>,
                                              stats_update |-> [j \in {1} |-> st]]),
                                        EmptyResourceUpdate)
        WithResource(r) == WireUpdate(meta,
                                      Some([new_tasks |-> <<task>>,
                                            stats_update |-> EmptyMap]),
                                      Some([new_resources |-> <<r>>,
                                            stats_update |-> EmptyMap]))
    IN  { WithMeta([id |-> None, metadata |-> Some([name |-> "n", target |-> "svc.a"])]),
          WithMeta([id |-> Some(7), metadata |-> None]),
          WithTask(WireTask(None, Some(7), Some(WireLocation))),
          WithTask(WireTask(Some(1), None, Some(WireLocation))),
          WithTask(WireTask(Some(1), Some(7), None)),
          WithTask(WireTask(Some(1), Some(7), Some([WireLocation EXCEPT !.file = None]))),
          WithTask(WireTask(Some(1), Some(7), Some([WireLocation EXCEPT !.line = None]))),
          WithTask(WireTask(Some(1), Some(7), Some([WireLocation EXCEPT !.column = None]))),
          WithTaskStats(WireTaskStats(None, None)),
          WithResource(WireResource(None, Some(7), WireKindTimer)),
          WithResource(WireResource(Some(1), None, WireKindTimer)),
          WithResource(WireResource(Some(1), Some(7), None)),
          WithResource(WireResource(Some(1), Some(7), Some(None))),
          WithResource([resource EXCEPT
                          !.location = Some([WireLocation EXCEPT !.line = None])]) }

\* The messages of the runs that keep the history
FoldUpdates ==
    FoldValidUpdates \cup MalformedUpdates
    \cup {MissingTaskUpdate, MissingResourceUpdate, UnknownBadStatsUpdate,
          FutureDropUpdate}

----------------------------------------------------------------------------
(* State                                                                   *)

VARIABLES
    inner,      \* ConsoleSubscriptions.inner: the map ConsoleAddr -> subscription id
                \* of the ConsoleStateWatch stored under that key
    lock,       \* owner of the tokio Mutex around the map, or None
    pc,         \* per caller: position inside subscribe
    addr,       \* per caller: the argument of its subscribe call
    ret,        \* per caller: what subscribe returned (the handle is held until dropped)
    dialed,     \* per caller: whether this call performed endpoint.connect()
    goneAtCall, \* per caller: the subscriptions of its address whose reducer task
                \* had finished when the call was made
    subs,       \* one record per successfully opened WatchUpdates stream: the watch
                \* channel and the reducer task spawned for it
    seen,       \* per caller: the version its handle's Receiver has marked seen
    read,       \* per caller: what its last borrow() returned, or None
    res,        \* per caller: what its last changed() returned ("", "Ok" or "Err")
                \* and how many of its changed() calls returned Ok
    now,        \* the wall clock (SystemTime::now()), in seconds
    log,        \* history: the messages a reducer has taken from its stream, each
                \* with the clock reading of its iteration (kept by SpecFold), or
                \* the messages a view's update has handled (kept by SpecView)
    sess,       \* per page view: its cancel token, its process_tasks_index_stream
                \* task, the ConnectionState session and the ResourcesIndex view
    probe,      \* an entity a pure method is called on, with what it returned
    keys        \* a TableViewKeybinds, with what the last call on it was given
                \* and returned

vars == <<inner, lock, pc, addr, ret, dialed, goneAtCall, seen, read, res, subs, now, log,
          sess, probe, keys>>

uiVars == <<sess, probe, keys>>

\* The registry, its callers and its reducers
coreVars == <<inner, lock, pc, addr, ret, dialed, goneAtCall, seen, read, res, subs>>

readerVars == <<seen, read, res>>

\* A handle on which changed() has not been called
NoRes == [last |-> "", oks |-> 0]

callerVars == <<pc, addr, ret, dialed, goneAtCall, readerVars>>

NoRet == [kind |-> "None", ch |-> 0]

Pages == 1 .. NumPages

\* ResourcesIndex::new: the view's state before any update
NoView == [state |-> [resources |-> EmptyMap, metadata |-> EmptyMap],
           paused_state |-> None,
           panicked |-> FALSE]

\* A page view nobody has requested
NoPage ==
    [token |-> "none",        \* the CancelOnDrop: none | live | cancelled
     view_alive |-> FALSE,    \* the ResourcesIndex value exists
     conn_alive |-> FALSE,    \* the ConnectionState session takes messages
     proc |-> "none",         \* the task: none | open | stream | bcast | done
     pending |-> None,        \* the broadcast it awaits: [topic, msg]
     after |-> "",            \* where it goes when the broadcast returns
     cause |-> "",            \* why the task ended
     received |-> 0,          \* messages taken from the stream
     conn_rx |-> <<>>,        \* mailbox of the ConnectionState (its mpsc Receiver)
     conn_closed |-> FALSE,   \* the Senders of that mailbox are gone
     watcher |-> "unmounted", \* the task mount spawns: unmounted | recv | send | final | done
     carrying |-> None,       \* the message it is sending to the session
     emitted |-> <<>>,        \* what it has sent to the session, in order
     applied |-> 0,           \* how many of them update has handled
     conn |-> "Connecting",   \* ConnectionState::state
     view |-> NoView]

\* No method call is being looked at
NoProbe == [task |-> None, state |-> ""]

\* TableViewKeybinds::default(), no call made on it yet
NoKeys ==
    [selected_idx |-> None, show_key_binds |-> FALSE, calls |-> 0, call |-> "",
     new_max |-> None, returned |-> None, panicked |-> FALSE]

OkRet(i) == [kind |-> "Ok", ch |-> i]
ErrRet(kind) == [kind |-> kind, ch |-> 0]

SubIds == 1 .. Len(subs)

\* A subscription is opened by a call, so there are at most NumCallers of them.
\* watch::channel(ConsoleState::default()) plus the task spawned with its Sender
NewSub(a) ==
    [addr |-> a,
     pc |-> "running",              \* running | cleanup | done | panicked
     exit |-> "",                   \* why subscribe_to_console_updates returned
     state |-> DefaultConsoleState, \* the reducer's local state
     received |-> 0,                \* messages taken from the stream
     value |-> DefaultConsoleState, \* the slot of the watch channel
     version |-> 0,                 \* number of tx.send calls that succeeded
     pre_reap |-> DefaultConsoleState, \* state before the retain calls of the last send
     sent_at |-> now]               \* clock reading of the last send

\* Receivers of subscription i: the clone in the map and the handles callers hold
RxCount(i) ==
    (IF subs[i].addr \in DOMAIN inner /\ inner[subs[i].addr] = i THEN 1 ELSE 0)
    + Cardinality({c \in Callers : ret[c] = OkRet(i)})

\* (mutant) the map is reached without mutual exclusion
LockIgnored == TRUE

\* self.inner.lock().await / map.lock().await completes
LockAvailable == lock = None

Init ==
    /\ inner = EmptyMap
    /\ lock = None
    /\ pc = [c \in Callers |-> "idle"]
    /\ addr = [c \in Callers |-> NoAddr]
    /\ ret = [c \in Callers |-> NoRet]
    /\ dialed = [c \in Callers |-> FALSE]
    /\ goneAtCall = [c \in Callers |-> {}]
    /\ seen = [c \in Callers |-> 0]
    /\ read = [c \in Callers |-> None]
    /\ res = [c \in Callers |-> NoRes]
    /\ subs = <<>>
    /\ now = Now0
    /\ log = <<>>
    /\ sess = [p \in Pages |-> NoPage]
    /\ probe = NoProbe
    /\ keys = NoKeys

----------------------------------------------------------------------------
(* ConsoleSubscriptions::subscribe                                         *)

\* subscribe(addr) is called: the future starts and waits for the lock
Call(c, a) ==
    /\ pc[c] = "idle"
    /\ pc' = [pc EXCEPT ![c] = "lock"]
    /\ addr' = [addr EXCEPT ![c] = a]
    /\ ret' = [ret EXCEPT ![c] = NoRet]
    /\ dialed' = [dialed EXCEPT ![c] = FALSE]
    /\ goneAtCall' = [goneAtCall EXCEPT
                        ![c] = {i \in SubIds : subs[i].pc = "done" /\ subs[i].addr = a}]
    /\ UNCHANGED <<inner, lock, subs, now, readerVars, log, uiVars>>

\* (mutant) the entry is reserved before the dial and left behind on failure
ReturnErrLeavesEntry(c, kind) ==
    /\ pc' = [pc EXCEPT ![c] = "done"]
    /\ ret' = [ret EXCEPT ![c] = ErrRet(kind)]
    /\ lock' = IF lock = Some(<<"subscribe", c>>) THEN None ELSE lock
    /\ inner' = MapInsert(inner, addr[c], 0)
    /\ UNCHANGED <<addr, dialed, goneAtCall, subs, now, readerVars, log, uiVars>>

\* (mutant) ? returns with the guard of the caller still alive
ReturnErrKeepsLock(c, kind) ==
    /\ pc' = [pc EXCEPT ![c] = "done"]
    /\ ret' = [ret EXCEPT ![c] = ErrRet(kind)]
    /\ UNCHANGED <<inner, lock, addr, dialed, goneAtCall, subs, now, readerVars, log, uiVars>>

\* What ? leaves behind when it returns from the Vacant arm: the guard of the
\* caller is dropped, the VacantEntry was never filled
ReturnErr(c, kind) ==
    /\ pc' = [pc EXCEPT ![c] = "done"]
    /\ ret' = [ret EXCEPT ![c] = ErrRet(kind)]
    /\ lock' = IF lock = Some(<<"subscribe", c>>) THEN None ELSE lock
    /\ UNCHANGED <<inner, addr, dialed, goneAtCall, subs, now, readerVars, log, uiVars>>

\* (mutant) an existing entry is ignored and the call dials again
SubscribeOccupiedDials(c) ==
    /\ pc[c] = "lock"
    /\ LockAvailable
    /\ addr[c] \in DOMAIN inner
    /\ lock' = Some(<<"subscribe", c>>)
    /\ pc' = [pc EXCEPT ![c] = "connect"]
    /\ dialed' = [dialed EXCEPT ![c] = TRUE]
    /\ UNCHANGED <<inner, addr, ret, goneAtCall, subs, now, readerVars, log, uiVars>>

\* (mutant) keys are compared as endpoints: an entry whose port is the same
\* number answers the call
SubscribeOccupiedByEndpoint(c) ==
    /\ pc[c] = "lock"
    /\ LockAvailable
    /\ \E k \in DOMAIN inner :
          /\ k.ip = addr[c].ip
          /\ {k.port, addr[c].port} \subseteq {"6669", "06669"}
          /\ ret' = [ret EXCEPT ![c] = OkRet(inner[k])]
    /\ pc' = [pc EXCEPT ![c] = "done"]
    /\ seen' = [seen EXCEPT ![c] = 0]
    /\ UNCHANGED <<inner, lock, addr, dialed, goneAtCall, subs, now, read, res, log, uiVars>>

\* Entry::Occupied: the guard is taken and released within the step.  The
\* clone starts at the version of the entry's Receiver, which nothing advances.
SubscribeOccupied(c) ==
    /\ pc[c] = "lock"
    /\ LockAvailable
    /\ addr[c] \in DOMAIN inner
    /\ pc' = [pc EXCEPT ![c] = "done"]
    /\ ret' = [ret EXCEPT ![c] = OkRet(inner[addr[c]])]
    /\ seen' = [seen EXCEPT ![c] = 0]
    /\ UNCHANGED <<inner, lock, addr, dialed, goneAtCall, subs, now, read, res, log, uiVars>>

\* Entry::Vacant, and the endpoint does not parse: ? returns, the guard drops
SubscribeParseFail(c) ==
    /\ pc[c] = "lock"
    /\ LockAvailable
    /\ addr[c] \notin DOMAIN inner
    /\ ~EndpointParses(addr[c])
    /\ ReturnErr(c, "ParseError")

\* Entry::Vacant: the call suspends on endpoint.connect() with the guard of the
\* match scrutinee still alive
SubscribeVacant(c) ==
    /\ pc[c] = "lock"
    /\ LockAvailable
    /\ addr[c] \notin DOMAIN inner
    /\ EndpointParses(addr[c])
    /\ lock' = Some(<<"subscribe", c>>)
    /\ pc' = [pc EXCEPT ![c] = "connect"]
    /\ dialed' = [dialed EXCEPT ![c] = TRUE]
    /\ UNCHANGED <<inner, addr, ret, goneAtCall, subs, now, readerVars, log, uiVars>>

\* endpoint.connect().await returns Ok: the call suspends on watch_updates
ConnectOk(c) ==
    /\ pc[c] = "connect"
    /\ pc' = [pc EXCEPT ![c] = "open"]
    /\ UNCHANGED <<inner, lock, addr, ret, dialed, goneAtCall, subs, now, readerVars, log, uiVars>>

\* endpoint.connect().await? returns Err
ConnectFail(c) ==
    /\ pc[c] = "connect"
    /\ ReturnErr(c, "ConnectError")

\* client.watch_updates(..).await? returns Err
OpenFail(c) ==
    /\ pc[c] = "open"
    /\ ReturnErr(c, "RpcError")

\* (mutant) the reducer is spawned and the handle returned, the entry is not
\* inserted
OpenOkSkipsInsert(c) ==
    /\ pc[c] = "open"
    /\ subs' = Append(subs, NewSub(addr[c]))
    /\ pc' = [pc EXCEPT ![c] = "done"]
    /\ ret' = [ret EXCEPT ![c] = OkRet(Len(subs) + 1)]
    /\ lock' = IF lock = Some(<<"subscribe", c>>) THEN None ELSE lock
    /\ seen' = [seen EXCEPT ![c] = 0]
    /\ UNCHANGED <<inner, addr, dialed, goneAtCall, now, read, res, log, uiVars>>

\* watch_updates returns the stream: watch::channel, tokio::spawn, entry.insert,
\* Ok(watch); the guard drops at the end of the match
OpenOk(c) ==
    /\ pc[c] = "open"
    /\ subs' = Append(subs, NewSub(addr[c]))
    /\ inner' = MapInsert(inner, addr[c], Len(subs) + 1)
    /\ pc' = [pc EXCEPT ![c] = "done"]
    /\ ret' = [ret EXCEPT ![c] = OkRet(Len(subs) + 1)]
    /\ lock' = IF lock = Some(<<"subscribe", c>>) THEN None ELSE lock
    /\ seen' = [seen EXCEPT ![c] = 0]
    /\ UNCHANGED <<addr, dialed, goneAtCall, now, read, res, log, uiVars>>

\* The caller drops what subscribe returned
DropHandle(c) ==
    /\ pc[c] = "done"
    /\ pc' = [pc EXCEPT ![c] = "dropped"]
    /\ addr' = [addr EXCEPT ![c] = NoAddr]
    /\ ret' = [ret EXCEPT ![c] = NoRet]
    /\ dialed' = [dialed EXCEPT ![c] = FALSE]
    /\ goneAtCall' = [goneAtCall EXCEPT ![c] = {}]
    /\ seen' = [seen EXCEPT ![c] = 0]
    /\ read' = [read EXCEPT ![c] = None]
    /\ res' = [res EXCEPT ![c] = NoRes]
    /\ UNCHANGED <<inner, lock, subs, now, log, uiVars>>

----------------------------------------------------------------------------
(* ConsoleStateWatch: a handle on the watch channel of a subscription       *)

\* The Sender of subscription i is gone: subscribe_to_console_updates, which
\* owns it, has returned or unwound
SenderDropped(i) == subs[i].pc # "running"

\* (mutant) the loss of the Sender is not reported: the call stays pending
ChangedPendsWhenClosed(c) ==
    /\ pc[c] = "done" /\ ret[c].kind = "Ok"
    /\ subs[ret[c].ch].version # seen[c]
    /\ seen' = [seen EXCEPT ![c] = subs[ret[c].ch].version]
    /\ res' = [res EXCEPT ![c] = [last |-> "Ok", oks |-> @.oks + 1]]
    /\ UNCHANGED <<inner, lock, pc, addr, ret, dialed, goneAtCall, read, subs, now, log, uiVars>>

\* (mutant) one version is marked seen per call, as if publishes were queued
ChangedStepwise(c) ==
    /\ pc[c] = "done" /\ ret[c].kind = "Ok"
    /\ LET i == ret[c].ch
       IN  \/ /\ subs[i].version # seen[c]
              /\ seen' = [seen EXCEPT ![c] = @ + 1]
              /\ res' = [res EXCEPT ![c] = [last |-> "Ok", oks |-> @.oks + 1]]
           \/ /\ subs[i].version = seen[c]
              /\ SenderDropped(i)
              /\ res' = [res EXCEPT ![c].last = "Err"]
              /\ seen' = seen
    /\ UNCHANGED <<inner, lock, pc, addr, ret, dialed, goneAtCall, read, subs, now, log, uiVars>>

\* (mutant) the handles of a subscription share one seen version
ChangedShared(c) ==
    /\ pc[c] = "done" /\ ret[c].kind = "Ok"
    /\ LET i == ret[c].ch
       IN  \/ /\ subs[i].version # seen[c]
              /\ seen' = [d \in Callers |->
                            IF ret[d] = ret[c] THEN subs[i].version ELSE seen[d]]
              /\ res' = [res EXCEPT ![c] = [last |-> "Ok", oks |-> @.oks + 1]]
           \/ /\ subs[i].version = seen[c]
              /\ SenderDropped(i)
              /\ res' = [res EXCEPT ![c].last = "Err"]
              /\ seen' = seen
    /\ UNCHANGED <<inner, lock, pc, addr, ret, dialed, goneAtCall, read, subs, now, log, uiVars>>

\* handle.changed().await completes: Ok once the channel holds a version the
\* handle has not marked seen, which it then marks; Err when there is none and
\* the Sender is gone.  Otherwise the call stays pending.
Changed(c) ==
    /\ pc[c] = "done" /\ ret[c].kind = "Ok"
    /\ LET i == ret[c].ch
       IN  \/ /\ subs[i].version # seen[c]
              /\ seen' = [seen EXCEPT ![c] = subs[i].version]
              /\ res' = [res EXCEPT ![c] = [last |-> "Ok", oks |-> @.oks + 1]]
           \/ /\ subs[i].version = seen[c]
              /\ SenderDropped(i)
              /\ res' = [res EXCEPT ![c].last = "Err"]
              /\ seen' = seen
    /\ UNCHANGED <<inner, lock, pc, addr, ret, dialed, goneAtCall, read, subs, now, log, uiVars>>

\* What a borrow returns: the value of the slot, tagged with its version
Snapshot(i) == [version |-> subs[i].version, value |-> subs[i].value]

\* (mutant) borrow may return a value the slot held before
BorrowAnyOlder(c) ==
    /\ pc[c] = "done" /\ ret[c].kind = "Ok"
    /\ \E v \in 0 .. subs[ret[c].ch].version :
          read' = [read EXCEPT ![c] = Some([Snapshot(ret[c].ch) EXCEPT !.version = v])]
    /\ UNCHANGED <<inner, lock, pc, addr, ret, dialed, goneAtCall, seen, res, subs, now, log, uiVars>>

\* handle.borrow(): the current value of the slot; the seen version stays
Borrow(c) ==
    /\ pc[c] = "done" /\ ret[c].kind = "Ok"
    /\ read' = [read EXCEPT ![c] = Some(Snapshot(ret[c].ch))]
    /\ UNCHANGED <<inner, lock, pc, addr, ret, dialed, goneAtCall, seen, res, subs, now, log, uiVars>>

----------------------------------------------------------------------------
(* The spawned reducer task                                                *)

\* subscribe_to_console_updates returns (with Ok or Err): state, stream and tx
\* are dropped
Exited(sub, reason) ==
    [sub EXCEPT !.pc = "cleanup", !.exit = reason, !.state = DefaultConsoleState,
                !.received = 0]

\* (mutant) the state a failed message leaves behind is sent before the return
EndOfIterationSendsAbandoned(i, got, o) ==
    CASE o.kind = "panic" ->
           [got EXCEPT !.pc = "panicked", !.state = DefaultConsoleState,
                       !.received = 0]
      [] o.kind = "err" ->
           Exited([got EXCEPT !.value = o.state, !.version = @ + 1], o.error)
      [] o.kind = "ok" /\ RxCount(i) = 0 -> Exited(got, "failed to send new state")
      [] OTHER ->
           [got EXCEPT !.state = o.state, !.value = o.state,
                       !.version = @ + 1, !.pre_reap = o.pre_reap,
                       !.sent_at = now]

\* What the iteration does with the outcome o of its message: the task panics,
\* a ? returns, tx.send fails with no receiver left, or tx.send publishes
EndOfIteration(i, got, o) ==
    CASE o.kind = "panic" ->
           [got EXCEPT !.pc = "panicked", !.state = DefaultConsoleState,
                       !.received = 0]
      [] o.kind = "err" -> Exited(got, o.error)
      [] o.kind = "ok" /\ RxCount(i) = 0 -> Exited(got, "failed to send new state")
      [] OTHER ->
           [got EXCEPT !.state = o.state, !.value = o.state,
                       !.version = @ + 1, !.pre_reap = o.pre_reap,
                       !.sent_at = now]

\* (mutant) let mut state = ConsoleState::default() sits inside the loop
IterateFromSeed(i, msg, limit) ==
    /\ i \in SubIds
    /\ subs[i].pc = "running"
    /\ subs[i].received < limit
    /\ subs' = [subs EXCEPT ![i] =
                  EndOfIteration(i, [subs[i] EXCEPT !.received = @ + 1],
                                 Reduce(DefaultConsoleState, msg, now))]
    /\ UNCHANGED <<inner, lock, callerVars, now>>

\* One iteration of the while-let loop on msg, from the destructuring to tx.send
Iterate(i, msg, limit) ==
    /\ i \in SubIds
    /\ subs[i].pc = "running"
    /\ subs[i].received < limit
    /\ subs' = [subs EXCEPT ![i] =
                  EndOfIteration(i, [subs[i] EXCEPT !.received = @ + 1],
                                 Reduce(subs[i].state, msg, now))]
    /\ UNCHANGED <<inner, lock, callerVars, now>>

\* stream.message().await yields Ok(Some(msg))
ReducerStep(i, msg, limit) ==
    /\ Iterate(i, msg, limit)
    /\ UNCHANGED <<log, uiVars>>

\* The same step, its message and clock reading appended to the history
ReducerStepLogged(i, msg, limit) ==
    /\ Iterate(i, msg, limit)
    /\ log' = Append(log, [msg |-> msg, at |-> now])
    /\ UNCHANGED uiVars

\* stream.message().await yields Ok(None)
ReducerEnd(i) ==
    /\ i \in SubIds
    /\ subs[i].pc = "running"
    /\ subs' = [subs EXCEPT ![i] = Exited(@, "eos")]
    /\ UNCHANGED <<inner, lock, callerVars, now, log, uiVars>>

\* stream.message().await yields Err(status)
ReducerStreamErr(i) ==
    /\ i \in SubIds
    /\ subs[i].pc = "running"
    /\ subs' = [subs EXCEPT ![i] = Exited(@, "stream_error")]
    /\ UNCHANGED <<inner, lock, callerVars, now, log, uiVars>>

\* (mutant) the task ends without removing its entry
ReducerCleanupKeepsEntry(i) ==
    /\ i \in SubIds
    /\ subs[i].pc = "cleanup"
    /\ LockAvailable
    /\ subs' = [subs EXCEPT ![i].pc = "done", ![i].exit = ""]
    /\ UNCHANGED <<inner, lock, callerVars, now, log, uiVars>>

\* map.lock().await.remove(&addr): the last statement of the task
ReducerCleanup(i) ==
    /\ i \in SubIds
    /\ subs[i].pc = "cleanup"
    /\ LockAvailable
    /\ inner' = MapRemove(inner, subs[i].addr)
    /\ subs' = [subs EXCEPT ![i].pc = "done", ![i].exit = ""]
    /\ UNCHANGED <<lock, callerVars, now, log, uiVars>>

\* (mutant) the passage of time reaps the published snapshots
TickReaps ==
    /\ now < MaxNow
    /\ now' = now + 1
    /\ subs' = [i \in SubIds |->
                 IF Reap(subs[i].value.tasks, now + 1).ok
                 THEN [subs[i] EXCEPT !.value.tasks = Reap(subs[i].value.tasks, now + 1).val]
                 ELSE subs[i]]
    /\ UNCHANGED <<inner, lock, callerVars, log, uiVars>>

\* The wall clock advances
Tick ==
    /\ now < MaxNow
    /\ now' = now + 1
    /\ UNCHANGED <<inner, lock, callerVars, subs, log, uiVars>>

----------------------------------------------------------------------------
(* A page view: the resources_index handler, the task it spawns             *)
(* (process_tasks_index_stream), the ConnectionState session with the task  *)
(* its mount spawns, and the ResourcesIndex view that owns the CancelOnDrop *)

\* connection_state::Msg, the two of its values the task broadcasts
StreamEnded == [kind |-> "StreamEnded"]
MsgError == [kind |-> "Error"]

\* The handler: CancelOnDrop::new, tokio::spawn of the task with token.child(),
\* ConnectionState::new and ResourcesIndex::new, both embedded in the page
OpenPage(p) ==
    /\ sess[p].token = "none"
    /\ sess' = [sess EXCEPT ![p] = [NoPage EXCEPT !.token = "live",
                                                 !.view_alive = TRUE,
                                                 !.conn_alive = TRUE,
                                                 !.proc = "open"]]
    /\ UNCHANGED <<coreVars, now, log, probe, keys>>

\* (mutant) the view is dropped and its token is not cancelled
DropViewLeaksToken(p) ==
    /\ sess[p].view_alive
    /\ sess' = [sess EXCEPT ![p].view_alive = FALSE]
    /\ UNCHANGED <<coreVars, now, log, probe, keys>>

\* The ResourcesIndex is dropped, and its _token with it: Drop for CancelOnDrop
\* calls inner.cancel()
DropView(p) ==
    /\ sess[p].view_alive
    /\ sess' = [sess EXCEPT ![p].view_alive = FALSE, ![p].token = "cancelled"]
    /\ UNCHANGED <<coreVars, now, log, probe, keys>>

\* The session of the ConnectionState ends: handle.send fails from now on
DropConn(p) ==
    /\ sess[p].conn_alive
    /\ sess' = [sess EXCEPT ![p].conn_alive = FALSE]
    /\ UNCHANGED <<coreVars, now, log, probe, keys>>

\* The task is inside process_stream, at one of its awaits
ProcLive(p) == sess[p].proc \in {"open", "stream", "bcast"}

\* The task starts pubsub.broadcast(topic, msg) and goes to after when it returns
Broadcasting(page, topic, msg, after, cause) ==
    [page EXCEPT !.proc = "bcast",
                 !.pending = Some([topic |-> topic, msg |-> msg]),
                 !.after = after,
                 !.cause = cause]

\* client.watch_updates(..).await returns Ok
ProcOpenOk(p) ==
    /\ sess[p].proc = "open"
    /\ sess' = [sess EXCEPT ![p].proc = "stream"]
    /\ UNCHANGED <<coreVars, now, log, probe, keys>>

\* client.watch_updates(..).await returns Err: Msg::Error is broadcast, return
ProcOpenErr(p) ==
    /\ sess[p].proc = "open"
    /\ sess' = [sess EXCEPT
                  ![p] = Broadcasting(@, "connection_state", MsgError, "done", "rpc_open")]
    /\ UNCHANGED <<coreVars, now, log, probe, keys>>

\* stream.message().await returns Ok(Some(msg)): M::try_from(msg), then the
\* broadcast on the message topic, or return when the conversion fails
ProcMessage(p, msg, limit) ==
    /\ sess[p].proc = "stream"
    /\ sess[p].received < limit
    /\ sess' = [sess EXCEPT
                  ![p] = IF UpdateFrom(msg).ok
                         THEN Broadcasting([@ EXCEPT !.received = @ + 1],
                                           "message", UpdateFrom(msg).val, "stream", "")
                         ELSE [@ EXCEPT !.received = @ + 1,
                                        !.proc = "done",
                                        !.cause = "conversion"]]
    /\ UNCHANGED <<coreVars, now, log, probe, keys>>

\* stream.message().await returns Ok(None): Msg::StreamEnded is broadcast, break
ProcStreamEnd(p) ==
    /\ sess[p].proc = "stream"
    /\ sess' = [sess EXCEPT
                  ![p] = Broadcasting(@, "connection_state", StreamEnded, "done",
                                      "end_of_stream")]
    /\ UNCHANGED <<coreVars, now, log, probe, keys>>

\* stream.message().await returns Err: Msg::Error is broadcast, break
ProcStreamErr(p) ==
    /\ sess[p].proc = "stream"
    /\ sess' = [sess EXCEPT
                  ![p] = Broadcasting(@, "connection_state", MsgError, "done",
                                      "upstream_error")]
    /\ UNCHANGED <<coreVars, now, log, probe, keys>>

\* pubsub.broadcast(..).await returns: a message on the connection_state topic
\* is in the mailbox of the page's ConnectionState; its result is ignored
ProcBroadcast(p) ==
    /\ sess[p].proc = "bcast"
    /\ sess' = [sess EXCEPT
                  ![p].proc = sess[p].after,
                  ![p].pending = None,
                  ![p].after = "",
                  ![p].conn_rx =
                     IF Unwrap(sess[p].pending).topic = "connection_state"
                          /\ ~sess[p].conn_closed
                     THEN Append(@, Unwrap(sess[p].pending).msg)
                     ELSE @]
    /\ UNCHANGED <<coreVars, now, log, probe, keys>>

\* tokio::select!: token.cancelled() completes while process_stream is at an
\* await, and process_stream is dropped there
ProcCancelled(p) ==
    /\ ProcLive(p)
    /\ sess[p].token = "cancelled"
    /\ sess' = [sess EXCEPT ![p].proc = "done",
                            ![p].pending = None,
                            ![p].after = "",
                            ![p].cause = "cancelled"]
    /\ UNCHANGED <<coreVars, now, log, probe, keys>>

\* ConnectionState::mount: self.rx.take() and the spawn of the forwarding task
Mount(p) ==
    /\ sess[p].conn_alive
    /\ sess[p].watcher = "unmounted"
    /\ sess' = [sess EXCEPT ![p].watcher = "recv"]
    /\ UNCHANGED <<coreVars, now, log, probe, keys>>

\* Every Sender of the mailbox is gone
MailboxClosed(p) ==
    /\ sess[p].token # "none"
    /\ ~sess[p].conn_closed
    /\ sess' = [sess EXCEPT ![p].conn_closed = TRUE]
    /\ UNCHANGED <<coreVars, now, log, probe, keys>>

\* rx.recv().await returns Some(msg)
WatcherRecv(p) ==
    /\ sess[p].watcher = "recv"
    /\ sess[p].conn_rx # <<>>
    /\ sess' = [sess EXCEPT ![p].watcher = "send",
                            ![p].carrying = Some(Head(sess[p].conn_rx)),
                            ![p].conn_rx = Tail(@)]
    /\ UNCHANGED <<coreVars, now, log, probe, keys>>

\* rx.recv().await returns None: the loop ends
WatcherRecvNone(p) ==
    /\ sess[p].watcher = "recv"
    /\ sess[p].conn_rx = <<>>
    /\ sess[p].conn_closed
    /\ sess' = [sess EXCEPT ![p].watcher = "final"]
    /\ UNCHANGED <<coreVars, now, log, probe, keys>>

\* handle.send(msg).await returns: Ok when the session takes messages, else
\* Err and the loop breaks
WatcherSend(p) ==
    /\ sess[p].watcher = "send"
    /\ sess' = [sess EXCEPT
                  ![p].watcher = IF sess[p].conn_alive THEN "recv" ELSE "final",
                  ![p].carrying = None,
                  ![p].emitted = IF sess[p].conn_alive
                                 THEN Append(@, Unwrap(sess[p].carrying)) ELSE @]
    /\ UNCHANGED <<coreVars, now, log, probe, keys>>

\* let _ = handle.send(Msg::StreamEnded).await; the task ends
WatcherFinal(p) ==
    /\ sess[p].watcher = "final"
    /\ sess' = [sess EXCEPT
                  ![p].watcher = "done",
                  ![p].emitted = IF sess[p].conn_alive THEN Append(@, StreamEnded) ELSE @]
    /\ UNCHANGED <<coreVars, now, log, probe, keys>>

\* ConnectionState::update with the next message the session was sent
ConnUpdate(p) ==
    /\ sess[p].conn_alive
    /\ sess[p].applied < Len(sess[p].emitted)
    /\ sess' = [sess EXCEPT ![p].applied = @ + 1,
                            ![p].conn = sess[p].emitted[sess[p].applied + 1].kind]
    /\ UNCHANGED <<coreVars, now, log, probe, keys>>

\* What ResourcesIndex::update leaves: the view it returns, or, when it
\* panicked, the view dropped by the unwinding and its token cancelled
Updated(page, view) ==
    IF view.panicked
    THEN [page EXCEPT !.view = view, !.view_alive = FALSE, !.token = "cancelled"]
    ELSE [page EXCEPT !.view = view]

\* ResourcesIndex::update is called with msg
ViewMsg(p, msg) ==
    /\ sess[p].view_alive
    /\ Len(log) < MaxDeltas
    /\ sess' = [sess EXCEPT ![p] = Updated(@, HandleMsg(@.view, msg, now))]
    /\ log' = Append(log, [msg |-> msg, at |-> now])
    /\ UNCHANGED <<coreVars, now, probe, keys>>

\* A resource whose dropped_at is later than the clock of the view
FutureDropResourceUpdate ==
    WireUpdate(None, EmptyTaskUpdate,
               Some([new_resources |-> <<WireResource(Some(1), Some(7), WireKindTimer)>>,
                     stats_update |->
                       [j \in {1} |-> WireResourceStats(Some(Timestamp(MaxNow + 1)))]]))

\* The task of a page; its stream carries a message that converts and one
\* that lacks the resource_update
ProcNext(p) ==
    \/ ProcOpenOk(p)
    \/ ProcOpenErr(p)
    \/ \E msg \in {AnnounceUpdate, MissingResourceUpdate} : ProcMessage(p, msg, MaxMsgs)
    \/ ProcStreamEnd(p)
    \/ ProcStreamErr(p)
    \/ ProcBroadcast(p)
    \/ ProcCancelled(p)

\* One page with its task, its ConnectionState session and its view's drop
NextSession ==
    \/ OpenPage(1)
    \/ DropView(1)
    \/ DropConn(1)
    \/ ProcNext(1)
    \/ Mount(1)
    \/ MailboxClosed(1)
    \/ WatcherRecv(1)
    \/ WatcherRecvNone(1)
    \/ WatcherSend(1)
    \/ WatcherFinal(1)
    \/ ConnUpdate(1)

SpecSession == Init /\ [][NextSession]_vars

\* The pages with their tasks and the drops of their views
NextCancel ==
    \E p \in Pages :
        \/ OpenPage(p)
        \/ DropView(p)
        \/ ProcNext(p)

\* A task whose token is cancelled is woken and polled: the cancelled() branch
\* of its select! is ready from then on
FairCancel == \A p \in Pages : WF_vars(ProcCancelled(p))

SpecCancel == Init /\ [][NextCancel]_vars /\ FairCancel

\* One ResourcesIndex view and the messages its update handles, kept in log:
\* clicks on the Play / Pause button and on a row, and the converted messages
\* of the stream that the task mount spawns hands it
NextView ==
    \/ OpenPage(1)
    \/ ViewMsg(1, TogglePlayPause)
    \/ \E resource_id \in ResourceIds : ViewMsg(1, RowClick(resource_id))
    \/ \E msg \in {AnnounceUpdate, StatsUpdate, AnnounceWithStatsUpdate, RetargetUpdate,
                    FutureDropResourceUpdate} :
          UpdateFrom(msg).ok /\ ViewMsg(1, MsgUpdate(UpdateFrom(msg).val))
    \/ Tick

SpecView == Init /\ [][NextView]_vars

----------------------------------------------------------------------------
(* Specifications                                                          *)

Next ==
    \/ \E c \in Callers, a \in Addrs : Call(c, a)
    \/ \E c \in Callers : SubscribeOccupied(c)
    \/ \E c \in Callers : SubscribeParseFail(c)
    \/ \E c \in Callers : SubscribeVacant(c)
    \/ \E c \in Callers : ConnectOk(c)
    \/ \E c \in Callers : ConnectFail(c)
    \/ \E c \in Callers : OpenOk(c)
    \/ \E c \in Callers : OpenFail(c)
    \/ \E c \in Callers : DropHandle(c)
    \/ \E i \in Callers, msg \in RegistryUpdates : ReducerStep(i, msg, MaxMsgs)
    \/ \E i \in Callers : ReducerEnd(i)
    \/ \E i \in Callers : ReducerStreamErr(i)
    \/ \E i \in Callers : ReducerCleanup(i)

\* The registry with its callers and reducers
Spec == Init /\ [][Next]_vars

\* One reducer folding every message of the bounded protocol: the state after
\* caller 1's subscribe("127.0.0.1", "6669") has returned its handle.
InitReduce ==
    /\ inner = MapInsert(EmptyMap, Addr("127.0.0.1", "6669"), 1)
    /\ lock = None
    /\ pc = [c \in Callers |-> IF c = 1 THEN "done" ELSE "idle"]
    /\ addr = [c \in Callers |-> IF c = 1 THEN Addr("127.0.0.1", "6669") ELSE NoAddr]
    /\ ret = [c \in Callers |-> IF c = 1 THEN OkRet(1) ELSE NoRet]
    /\ dialed = [c \in Callers |-> c = 1]
    /\ goneAtCall = [c \in Callers |-> {}]
    /\ seen = [c \in Callers |-> 0]
    /\ read = [c \in Callers |-> None]
    /\ res = [c \in Callers |-> NoRes]
    /\ now = Now0
    /\ subs = <<NewSub(Addr("127.0.0.1", "6669"))>>
    /\ log = <<>>
    /\ sess = [p \in Pages |-> NoPage]
    /\ probe = NoProbe
    /\ keys = NoKeys

NextReduce ==
    \/ \E msg \in AllUpdates : ReducerStep(1, msg, MaxDeltas)
    \/ ReducerEnd(1)
    \/ ReducerStreamErr(1)
    \/ ReducerCleanup(1)
    \/ Tick

SpecReduce == InitReduce /\ [][NextReduce]_vars

\* Messages that lack one of the two sub-updates
MissingUpdates == {MissingTaskUpdate, MissingResourceUpdate}

\* The registry over upstreams whose stream never ends and never fails: a
\* message carries nothing, or lacks task_update or resource_update
NextMissing ==
    \/ \E c \in Callers, a \in Addrs : Call(c, a)
    \/ \E c \in Callers : SubscribeOccupied(c)
    \/ \E c \in Callers : SubscribeParseFail(c)
    \/ \E c \in Callers : SubscribeVacant(c)
    \/ \E c \in Callers : ConnectOk(c)
    \/ \E c \in Callers : ConnectFail(c)
    \/ \E c \in Callers : OpenOk(c)
    \/ \E c \in Callers : OpenFail(c)
    \/ \E c \in Callers : DropHandle(c)
    \/ \E i \in Callers, msg \in MissingUpdates \cup {EmptyUpdate} :
          ReducerStep(i, msg, MaxMsgs)
    \/ \E i \in Callers : ReducerCleanup(i)

\* Messages each of which changes what is published
WatchUpdates == {AnnounceUpdate, RetargetUpdate}

WatchAddr == Addr("127.0.0.1", "6669")

\* Callers subscribing to one address, calling changed() and borrow() on their
\* handles while the reducer publishes, starting where the first caller holds
\* its handle.  The upstream serves one stream: a connect made once that
\* stream's entry is gone fails.
NextWatch ==
    \/ \E c \in Callers : Call(c, WatchAddr)
    \/ \E c \in Callers : SubscribeOccupied(c)
    \/ \E c \in Callers : SubscribeVacant(c)
    \/ \E c \in Callers : ConnectFail(c)
    \/ \E c \in Callers : Changed(c)
    \/ \E c \in Callers : Borrow(c)
    \/ \E msg \in WatchUpdates : ReducerStep(1, msg, MaxSends)
    \/ ReducerEnd(1)
    \/ ReducerCleanup(1)

SpecWatch == InitReduce /\ [][NextWatch]_vars

\* One reducer folding the messages of FoldUpdates, its history kept in log
NextFold ==
    \/ \E msg \in FoldUpdates : ReducerStepLogged(1, msg, MaxDeltas)
    \/ ReducerEnd(1)
    \/ ReducerStreamErr(1)
    \/ ReducerCleanup(1)
    \/ Tick

SpecFold == InitReduce /\ [][NextFold]_vars

\* Scheduling the code relies on: a pending connect or RPC open returns (at
\* most one call is inside the dial at a time, as it holds the lock), and the
\* tokio Mutex is fair (FIFO), so a task waiting for it gets it.
Fairness ==
    /\ WF_vars(\E c \in Callers : ConnectOk(c) \/ ConnectFail(c))
    /\ WF_vars(\E c \in Callers : OpenOk(c) \/ OpenFail(c))
    /\ \A i \in Callers : SF_vars(ReducerCleanup(i))

FairSpec == Init /\ [][Next]_vars /\ Fairness

\* The registry with every waiter of the lock served: tokio's Mutex hands the
\* lock to its waiters in the order they asked, so a subscribe call waiting in
\* lock().await gets it once every earlier holder has released it, as a
\* reducer's cleanup does.
SpecLive ==
    /\ Init /\ [][Next]_vars /\ Fairness
    /\ \A c \in Callers :
          SF_vars(SubscribeOccupied(c) \/ SubscribeParseFail(c) \/ SubscribeVacant(c))

SpecMissing == Init /\ [][NextMissing]_vars /\ Fairness

\* Callers subscribing to one address from the empty registry and reading
\* their handles; the stream of a subscription delivers at most MaxMsgs
\* messages and then ends or fails, possibly at once.
NextClose ==
    \/ \E c \in Callers : Call(c, WatchAddr)
    \/ \E c \in Callers : SubscribeOccupied(c)
    \/ \E c \in Callers : SubscribeVacant(c)
    \/ \E c \in Callers : ConnectOk(c)
    \/ \E c \in Callers : OpenOk(c)
    \/ \E c \in Callers : Changed(c)
    \/ \E c \in Callers : Borrow(c)
    \/ \E i \in Callers, msg \in WatchUpdates : ReducerStep(i, msg, MaxMsgs)
    \/ \E i \in Callers : ReducerEnd(i)
    \/ \E i \in Callers : ReducerStreamErr(i)
    \/ \E i \in Callers : ReducerCleanup(i)

\* A task that awaits changed() is woken by a send and by the drop of the
\* Sender, and the runtime polls every woken task
FairReaders == \A c \in Callers : WF_vars(Changed(c))

SpecClose == Init /\ [][NextClose]_vars /\ Fairness /\ FairReaders

----------------------------------------------------------------------------
(* Properties of the registry                                              *)

\* The subscriptions of address a whose reducer task has not run to completion
Unfinished(a) == {i \in SubIds : subs[i].addr = a /\ subs[i].pc # "done"}

\* The reducer tasks of address a that are alive
Alive(a) == {i \in SubIds : subs[i].addr = a /\ subs[i].pc \in {"running", "cleanup"}}

HoldsHandle(c) == pc[c] = "done" /\ ret[c].kind = "Ok"

C2_ExitedReducerRemovesEntry ==
    \A i \in Callers :
        (i \in SubIds /\ subs[i].pc = "cleanup")
            ~> (/\ i \in SubIds
                /\ subs[i].pc = "done"
                /\ ~(subs[i].addr \in DOMAIN inner /\ inner[subs[i].addr] = i))

C2_Witness ==
    \E i \in SubIds :
        /\ subs[i].pc = "done"
        /\ subs[i].addr \notin DOMAIN inner

C4_FailedSubscribeLeavesNoEntry ==
    [][\A c \in Callers :
          /\ (pc[c] \in {"connect", "open"} /\ ~(pc'[c] = "done" /\ ret'[c].kind = "Ok")
                => inner' = inner /\ Len(subs') = Len(subs))
          /\ (pc[c] # "done" /\ pc'[c] = "done" /\ ret'[c].kind # "Ok"
                => /\ inner' = inner
                   /\ Len(subs') = Len(subs)
                   /\ ret'[c].kind = CASE pc[c] = "lock" -> "ParseError"
                                       [] pc[c] = "connect" -> "ConnectError"
                                       [] OTHER -> "RpcError")]_vars

C4_Witness ==
    \E c \in Callers :
        /\ pc[c] = "done"
        /\ ret[c].kind = "RpcError"
        /\ addr[c] \notin DOMAIN inner

\* C5: the registry lock is never held by a subscribe call that is suspended on
\* transport connect or on RPC open.
C5_LockNotHeldAcrossDial ==
    \A c \in Callers :
        pc[c] \in {"connect", "open"} => lock # Some(<<"subscribe", c>>)

\* C6: when the map holds an entry for addr, subscribe(addr) returns a clone of
\* that entry's handle without connecting, without opening an RPC, without
\* spawning a reducer, and leaves the map unchanged.
C6_OccupiedReturnsClone ==
    [][\A c \in Callers :
          pc[c] = "lock" /\ addr[c] \in DOMAIN inner /\ pc'[c] # "lock"
            => /\ pc'[c] = "done"
               /\ ret'[c] = OkRet(inner[addr[c]])
               /\ ~dialed'[c]
               /\ inner' = inner
               /\ subs' = subs
               /\ lock' = lock]_vars

C6_Witness ==
    \E c \in Callers :
        /\ HoldsHandle(c)
        /\ ~dialed[c]
        /\ inner[addr[c]] = ret[c].ch

----------------------------------------------------------------------------
(* Properties of the reducer                                               *)

\* stats.dropped_at of an entity, or None
DroppedAt(e) == IF IsSome(e.stats) THEN Unwrap(e.stats).dropped_at ELSE None

\* The send of subscription i succeeded in this step
Published(i) == i \in SubIds /\ subs'[i].version # subs[i].version

WithinGrace(entities, at) ==
    \A id \in DOMAIN entities :
        IsSome(DroppedAt(entities[id])) => at - Unwrap(DroppedAt(entities[id])) < GraceSecs

\* C7: in every published snapshot, every task and every resource whose
\* stats.dropped_at is set has now - dropped_at < 5 s, now being the clock of the
\* reducer step that published it; an entity dropped exactly 5 s before is gone.
C7_PublishedWithinGrace ==
    \A i \in SubIds :
        /\ WithinGrace(subs[i].value.tasks, subs[i].sent_at)
        /\ WithinGrace(subs[i].value.resources, subs[i].sent_at)

C7_Witness ==
    \E i \in SubIds :
        /\ subs[i].version > 0
        /\ 1 \in DOMAIN subs[i].pre_reap.tasks
        /\ DroppedAt(subs[i].pre_reap.tasks[1]) = Some(subs[i].sent_at - GraceSecs)
        /\ 1 \notin DOMAIN subs[i].value.tasks
        /\ 1 \in DOMAIN subs[i].value.resources
        /\ DroppedAt(subs[i].value.resources[1]) = Some(subs[i].sent_at - GraceSecs + 1)

\* An entity of before that is missing in after was, before the retain calls of
\* the step, present with stats whose dropped_at is at least 5 s in the past
RemovedOnlyByReap(before, after, pre_reap, at) ==
    \A id \in DOMAIN before \ DOMAIN after :
        /\ id \in DOMAIN pre_reap
        /\ IsSome(DroppedAt(pre_reap[id]))
        /\ at - Unwrap(DroppedAt(pre_reap[id])) >= GraceSecs

\* C8: a task or resource of one published snapshot is missing from the next only
\* if, at that step, it had stats with dropped_at at least 5 s in the past; an
\* entity without stats or without dropped_at is kept, and no snapshot changes
\* without a send.
C8_RemovedOnlyWhenDroppedLongAgo ==
    [][\A i \in SubIds :
          IF Published(i)
          THEN /\ RemovedOnlyByReap(subs[i].value.tasks, subs'[i].value.tasks,
                                    subs'[i].pre_reap.tasks, now)
               /\ RemovedOnlyByReap(subs[i].value.resources, subs'[i].value.resources,
                                    subs'[i].pre_reap.resources, now)
          ELSE subs'[i].value = subs[i].value]_vars

C8_Witness ==
    \E i \in SubIds :
        /\ subs[i].version >= 2
        /\ 1 \in DOMAIN subs[i].value.tasks
        /\ IsSome(subs[i].value.tasks[1].stats)
        /\ DroppedAt(subs[i].value.tasks[1]) = None
        /\ 1 \in DOMAIN subs[i].pre_reap.resources
        /\ 1 \notin DOMAIN subs[i].value.resources

TargetsResolved(entities, metadata) ==
    \A id \in DOMAIN entities :
        entities[id].metadata_id \in DOMAIN metadata
            => entities[id].target = Some(metadata[entities[id].metadata_id].target)

\* C9: in every published snapshot, every task and every resource whose
\* metadata_id is a key of the snapshot's metadata has the target of that
\* metadata, also after the metadata was overwritten or the entity re-announced.
C9_TargetMatchesMetadata ==
    \A i \in SubIds :
        /\ TargetsResolved(subs[i].value.tasks, subs[i].value.metadata)
        /\ TargetsResolved(subs[i].value.resources, subs[i].value.metadata)

C9_Witness ==
    \E i \in SubIds :
        /\ subs[i].version = MaxDeltas
        /\ 1 \in DOMAIN subs[i].value.tasks
        /\ 1 \in DOMAIN subs[i].value.resources
        /\ subs[i].value.tasks[1].target = Some("svc.b")
        /\ subs[i].value.resources[1].target = Some("svc.b")
        /\ IsSome(subs[i].value.tasks[1].stats)

\* C10: a task whose metadata has not arrived has target None in every published
\* snapshot; the snapshot of the message that delivers the metadata of its
\* metadata_id has the task's target set to that metadata's target, and so has
\* every later snapshot that holds the task under that metadata_id.
C10_TargetNoneUntilMetadata ==
    /\ [](\A i \in SubIds : \A id \in DOMAIN subs[i].value.tasks :
            subs[i].value.tasks[id].metadata_id \notin DOMAIN subs[i].value.metadata
                => subs[i].value.tasks[id].target = None)
    /\ [][\A i \in SubIds :
            Published(i) =>
              \A id \in DOMAIN subs[i].value.tasks \cap DOMAIN subs'[i].value.tasks :
                LET old == subs[i].value.tasks[id]
                    new == subs'[i].value.tasks[id]
                IN  /\ new.metadata_id = old.metadata_id
                    /\ \/ IsSome(old.target)
                       \/ new.metadata_id \in DOMAIN subs'[i].value.metadata
                    => /\ new.metadata_id \in DOMAIN subs'[i].value.metadata
                       /\ new.target =
                            Some(subs'[i].value.metadata[new.metadata_id].target)]_vars

C10_Witness ==
    \E i \in SubIds :
        /\ subs[i].version >= 2
        /\ 1 \in DOMAIN subs[i].value.tasks
        /\ subs[i].value.tasks[1].target = Some("svc.a")
        /\ 1 \notin DOMAIN subs[i].value.resources

----------------------------------------------------------------------------
(* Properties of the fold, over the runs that keep the history              *)

\* This step took a message from the stream of subscription 1
Took == Len(log') = Len(log) + 1

\* The message taken in this step, and the clock reading of its iteration
Taken == log'[Len(log')]

\* The effect of this step on subscription i is the one of outcome o: a send of
\* o.state, a return with nothing sent, or a panic with nothing sent
StepMatches(i, o) ==
    CASE o.kind = "ok" ->
           /\ subs'[i].pc = "running"
           /\ subs'[i].value = o.state
           /\ subs'[i].version = subs[i].version + 1
      [] o.kind = "err" ->
           /\ subs'[i].pc = "cleanup"
           /\ subs'[i].value = subs[i].value
           /\ subs'[i].version = subs[i].version
      [] OTHER ->
           /\ subs'[i].pc = "panicked"
           /\ subs'[i].value = subs[i].value
           /\ subs'[i].version = subs[i].version

\* Ids a list of new tasks or new resources announces
Announced(new_entities) ==
    {Unwrap(new_entities[k].id) : k \in {n \in DOMAIN new_entities : IsSome(new_entities[n].id)}}

\* The stats entries of ids that are in entities or announced by new_entities
KnownStats(stats_update, entities, new_entities) ==
    [id \in DOMAIN stats_update \cap (DOMAIN entities \cup Announced(new_entities)) |->
       stats_update[id]]

\* msg without the stats entries whose id is not in state when they are applied
WithoutUnknownStats(state, msg) ==
    [msg EXCEPT
       !.task_update =
          IF IsSome(@)
          THEN Some([Unwrap(@) EXCEPT
                       !.stats_update = KnownStats(@, state.tasks, Unwrap(msg.task_update).new_tasks)])
          ELSE @,
       !.resource_update =
          IF IsSome(@)
          THEN Some([Unwrap(@) EXCEPT
                       !.stats_update =
                          KnownStats(@, state.resources,
                                     Unwrap(msg.resource_update).new_resources)])
          ELSE @]

\* Every stats entry of msg whose id is unknown converts
UnknownStatsConvert(state, msg) ==
    /\ IsSome(msg.task_update) =>
         LET u == Unwrap(msg.task_update)
         IN  \A id \in DOMAIN u.stats_update \ (DOMAIN state.tasks \cup Announced(u.new_tasks)) :
                TaskStatsFrom(u.stats_update[id]).ok
    /\ IsSome(msg.resource_update) =>
         LET u == Unwrap(msg.resource_update)
         IN  \A id \in DOMAIN u.stats_update
                         \ (DOMAIN state.resources \cup Announced(u.new_resources)) :
                ResourceStatsFrom(u.stats_update[id]).ok

\* Ids of stats entries of msg that are unknown when applied
UnknownStatsIds(state, msg) ==
    [tasks |-> IF IsSome(msg.task_update)
               THEN DOMAIN Unwrap(msg.task_update).stats_update
                    \ (DOMAIN state.tasks \cup Announced(Unwrap(msg.task_update).new_tasks))
               ELSE {},
     resources |-> IF IsSome(msg.resource_update)
                   THEN DOMAIN Unwrap(msg.resource_update).stats_update
                        \ (DOMAIN state.resources
                           \cup Announced(Unwrap(msg.resource_update).new_resources))
                   ELSE {}]

\* The step has the effect the message would have without its stats entries of
\* unknown ids, and holds no entity of such an id afterwards
UnknownStatsIgnored ==
    LET stripped == WithoutUnknownStats(subs[1].state, Taken.msg)
        unknown == UnknownStatsIds(subs[1].state, Taken.msg)
    IN  /\ StepMatches(1, Reduce(subs[1].state, stripped, Taken.at))
        /\ unknown.tasks \cap DOMAIN subs'[1].value.tasks = {}
        /\ unknown.resources \cap DOMAIN subs'[1].value.resources = {}

\* C11 (as stated): a stats_update entry, of a task or a resource, whose id is not
\* in the state when it is applied changes nothing: the step publishes what the
\* message without that entry would publish, the reducer keeps running, and no
\* entity is created for the id.
C11_UnknownStatsIsNoOp ==
    [][Took => UnknownStatsIgnored]_vars

\* C11 (amended): a stats_update entry that converts and whose id is not in the
\* state when it is applied changes nothing: the step publishes what the message
\* without that entry would publish, the reducer keeps running, and no entity is
\* created for the id.
C11_ConvertibleUnknownStatsIsNoOp ==
    [][Took /\ UnknownStatsConvert(subs[1].state, Taken.msg) => UnknownStatsIgnored]_vars

C11_Witness ==
    /\ Len(log) = 2
    /\ log[1].msg = StatsUpdate
    /\ log[2].msg = AnnounceUpdate
    /\ subs[1].pc = "running"
    /\ subs[1].version = 2
    /\ DOMAIN subs[1].value.tasks = {1}
    /\ DOMAIN subs[1].value.resources = {1}
    /\ subs[1].value.tasks[1].stats = None

\* The target the metadata list of a message leaves under id, as a set: the
\* target of the last entry of that id
TargetIn(new_metadata, id) ==
    LET list == IF IsSome(new_metadata) THEN Unwrap(new_metadata).metadata ELSE <<>>
    IN  {list[k].metadata[1].target :
           k \in {n \in DOMAIN list :
                    /\ list[n].id = Some(id)
                    /\ \A later \in DOMAIN list : later > n => list[later].id # Some(id)}}

\* Entity id, announced by the message together with the stats entry wire, is
\* in the snapshot with exactly those stats, unless the retain call that
\* follows the stats loop removed it for its dropped_at
AnnouncedWithStats(entities, id, stats, at) ==
    IF id \in DOMAIN entities
    THEN entities[id].stats = Some(stats)
    ELSE IsSome(stats.dropped_at) /\ at - Unwrap(stats.dropped_at) >= GraceSecs

\* Entity id, announced by the message together with metadata for its
\* metadata_id, has that metadata's target in the snapshot
AnnouncedWithMetadata(entities, id, metadata_id, new_metadata) ==
    id \in DOMAIN entities =>
        \A target \in TargetIn(new_metadata, metadata_id) :
            entities[id].target = Some(target)

\* C12: the steps of one message run in the order metadata, new tasks, task
\* stats, task targets, new resources, resource stats, resource targets, reap,
\* send: a published message that announces an entity and carries stats for it
\* publishes the entity with those stats (or not at all, when the reap that
\* follows removed it), and one that announces an entity with its metadata
\* publishes the entity with its target set.
C12_StepsInFixedOrder ==
    [][Took /\ Published(1) =>
         LET m == Taken.msg
             tu == Unwrap(m.task_update)
             ru == Unwrap(m.resource_update)
             snapshot == subs'[1].value
         IN  /\ \A k \in DOMAIN tu.new_tasks :
                  LET id == Unwrap(tu.new_tasks[k].id)
                  IN  /\ id \in DOMAIN tu.stats_update =>
                           AnnouncedWithStats(snapshot.tasks, id,
                                              TaskStatsFrom(tu.stats_update[id]).val,
                                              Taken.at)
                      /\ AnnouncedWithMetadata(snapshot.tasks, id,
                                               Unwrap(tu.new_tasks[k].metadata),
                                               m.new_metadata)
             /\ \A k \in DOMAIN ru.new_resources :
                  LET id == Unwrap(ru.new_resources[k].id)
                  IN  /\ id \in DOMAIN ru.stats_update =>
                           AnnouncedWithStats(snapshot.resources, id,
                                              ResourceStatsFrom(ru.stats_update[id]).val,
                                              Taken.at)
                      /\ AnnouncedWithMetadata(snapshot.resources, id,
                                               Unwrap(ru.new_resources[k].metadata),
                                               m.new_metadata)]_vars

C12_Witness ==
    /\ Len(log) = 2
    /\ log[1].msg = AnnounceUpdate
    /\ log[2].msg = AnnounceWithStatsUpdate
    /\ subs[1].version = 2
    /\ 1 \in DOMAIN subs[1].value.tasks
    /\ subs[1].value.tasks[1].target = Some("svc.a")
    /\ subs[1].value.tasks[1].stats = Some(TaskStatsFrom(WireDroppedTaskStats).val)
    /\ 1 \in DOMAIN subs[1].value.resources
    /\ IsSome(subs[1].value.resources[1].stats)

\* The state after folding the first n messages of the history one at a time,
\* in arrival order, each at the clock reading of its iteration
RECURSIVE FoldLog(_)
FoldLog(n) ==
    IF n = 0 THEN DefaultConsoleState
    ELSE Reduce(FoldLog(n - 1), log[n].msg, log[n].at).state

\* C13: the n-th snapshot a reducer publishes is the fold of the messages 1..n
\* of its stream, one at a time in arrival order; a message is taken only when
\* the one before it has been applied and published, and every send publishes
\* exactly the message taken in that step.
C13_SnapshotIsFoldOfDeltas ==
    /\ subs[1].version <= Len(log)
    /\ subs[1].value = FoldLog(subs[1].version)
    /\ subs[1].pc = "running" =>
          /\ subs[1].version = Len(log)
          /\ subs[1].state = subs[1].value
    /\ subs[1].pc # "running" => Len(log) <= subs[1].version + 1

C13_Witness ==
    /\ Len(log) = 3
    /\ subs[1].version = 3
    /\ log[1].msg = AnnounceUpdate
    /\ log[2].msg = StatsUpdate
    /\ log[3].msg = RetargetUpdate
    /\ subs[1].value.tasks[1].target = Some("svc.b")
    /\ IsSome(subs[1].value.tasks[1].stats)

\* The announcement converts to an entity whose id is in entities and whose
\* announced fields (all but stats and target) equal the stored ones
Reannounces(converted, entities) ==
    /\ converted.ok
    /\ converted.val.id \in DOMAIN entities
    /\ [converted.val EXCEPT !.stats = None, !.target = None]
         = [entities[converted.val.id] EXCEPT !.stats = None, !.target = None]

\* msg without the announcements of entities that state already holds with
\* equal fields
WithoutReannounced(state, msg) ==
    LET NewTask(t) == ~Reannounces(TaskFrom(t), state.tasks)
        NewResource(r) == ~Reannounces(ResourceFrom(r), state.resources)
    IN  [msg EXCEPT
           !.task_update =
              IF IsSome(@)
              THEN Some([Unwrap(@) EXCEPT !.new_tasks = SelectSeq(@, NewTask)])
              ELSE @,
           !.resource_update =
              IF IsSome(@)
              THEN Some([Unwrap(@) EXCEPT !.new_resources = SelectSeq(@, NewResource)])
              ELSE @]

\* C14: announcing again, in new_tasks or new_resources, an entity whose id is in
\* the state with fields equal to the stored ones leaves the published snapshot
\* as it would be without the announcement, the entity's stats and target
\* included.
C14_ReannounceKeepsSnapshot ==
    [][Took => StepMatches(1, Reduce(subs[1].state,
                                     WithoutReannounced(subs[1].state, Taken.msg),
                                     Taken.at))]_vars

\* A wire location without file, line or column
LocationLacksField(location) ==
    ~IsSome(location.file) \/ ~IsSome(location.line) \/ ~IsSome(location.column)

\* The message holds a metadata, task, resource or task stats entry without one
\* of the fields its conversion requires
LacksRequiredField(msg) ==
    \/ /\ IsSome(msg.new_metadata)
       /\ \E k \in DOMAIN Unwrap(msg.new_metadata).metadata :
             LET m == Unwrap(msg.new_metadata).metadata[k]
             IN  ~IsSome(m.id) \/ ~IsSome(m.metadata)
    \/ /\ IsSome(msg.task_update)
       /\ \/ \E k \in DOMAIN Unwrap(msg.task_update).new_tasks :
                LET t == Unwrap(msg.task_update).new_tasks[k]
                IN  \/ ~IsSome(t.id) \/ ~IsSome(t.metadata) \/ ~IsSome(t.location)
                    \/ LocationLacksField(Unwrap(t.location))
          \/ \E id \in DOMAIN Unwrap(msg.task_update).stats_update :
                ~IsSome(Unwrap(msg.task_update).stats_update[id].poll_stats)
    \/ /\ IsSome(msg.resource_update)
       /\ \E k \in DOMAIN Unwrap(msg.resource_update).new_resources :
             LET r == Unwrap(msg.resource_update).new_resources[k]
             IN  \/ ~IsSome(r.id) \/ ~IsSome(r.metadata)
                 \/ ~IsSome(r.kind) \/ ~IsSome(Unwrap(r.kind))
                 \/ IsSome(r.location) /\ LocationLacksField(Unwrap(r.location))

\* The texts of the errors the conversions and the two context() calls return
ConversionErrors ==
    {"Missing id field", "Missing metadata field", "Missing meta field",
     "Missing location field", "Missing file field", "Missing line field",
     "Missing column field", "Missing kind field", "Missing kind.kind",
     "Missing poll_stats field", "Missing task_update field",
     "Missing resource_update field"}

CompleteSnapshot(value) ==
    \/ value = DefaultConsoleState
    \/ \E k \in 1 .. Len(log) :
          LET o == Reduce(FoldLog(k - 1), log[k].msg, log[k].at)
          IN  o.kind = "ok" /\ o.state = value

\* C17: the value a handle reads is the empty seed or the complete result of a
\* message applied in full, never a state in between; a message that fails
\* after part of it was folded into the reducer's local state publishes
\* nothing, and nothing is published after it.
C17_NoPartialSnapshot ==
    /\ [](\A i \in SubIds : CompleteSnapshot(subs[i].value))
    /\ [][Took /\ Reduce(subs[1].state, Taken.msg, Taken.at).kind # "ok" =>
            /\ subs'[1].value = subs[1].value
            /\ subs'[1].version = subs[1].version
            /\ subs'[1].pc # "running"]_vars
    /\ [][subs[1].pc # "running" =>
            subs'[1].value = subs[1].value /\ subs'[1].pc # "running"]_vars

\* A message failed after its metadata and its new task were folded
C17_Witness ==
    /\ Len(log) = 2
    /\ log[1].msg = StatsUpdate
    /\ subs[1].version = 1
    /\ subs[1].pc = "cleanup"
    /\ subs[1].value = FoldLog(1)
    /\ LET o == Reduce(FoldLog(1), log[2].msg, log[2].at)
       IN  /\ o.kind = "err"
           /\ DOMAIN o.state.metadata = {7}
           /\ DOMAIN o.state.tasks = {1}
           /\ o.state # subs[1].value

----------------------------------------------------------------------------
(* Properties of the registry over streams that only end by a missing        *)
(* sub-update                                                               *)

MissingReasons == {"Missing task_update field", "Missing resource_update field"}

\* C15: a message in which task_update or resource_update is absent ends the
\* stream: the reducer returns with the error of the missing field and nothing
\* sent, its registry entry is eventually removed, a subscribe call that finds
\* the address vacant connects and opens an RPC, and a call made after the
\* removal returns a handle of a subscription opened after it.
C15_MissingUpdateEndsStream ==
    /\ [](\A i \in SubIds : \A msg \in MissingUpdates :
            subs[i].pc = "running" =>
               /\ Reduce(subs[i].state, msg, now).kind = "err"
               /\ Reduce(subs[i].state, msg, now).error \in MissingReasons)
    /\ [][\A i \in SubIds :
            subs[i].pc = "running" /\ subs'[i].pc # "running" =>
               /\ subs'[i].pc = "cleanup"
               /\ subs'[i].exit \in MissingReasons
               /\ subs'[i].version = subs[i].version]_vars
    /\ \A i \in Callers :
          (i \in SubIds /\ subs[i].pc = "cleanup" /\ subs[i].exit \in MissingReasons)
             ~> (i \in SubIds /\ subs[i].pc = "done" /\ subs[i].addr \notin DOMAIN inner)
    /\ [][\A c \in Callers :
            pc[c] = "lock" /\ pc'[c] # "lock" /\ addr[c] \notin DOMAIN inner =>
               \/ pc'[c] = "connect" /\ dialed'[c]
               \/ pc'[c] = "done" /\ ret'[c].kind = "ParseError"]_vars
    /\ [](\A c \in Callers : \A j \in goneAtCall[c] :
            HoldsHandle(c) =>
               /\ ret[c].ch > j
               /\ subs[ret[c].ch].addr = subs[j].addr)

C15_Witness ==
    \E c \in Callers :
        /\ HoldsHandle(c)
        /\ dialed[c]
        /\ goneAtCall[c] = {1}
        /\ ret[c].ch = 2
        /\ subs[2].pc = "cleanup"
        /\ subs[2].exit = "Missing resource_update field"

----------------------------------------------------------------------------
(* Properties of the handles                                               *)

\* The callers that hold a handle of subscription i
Holders(i) == {c \in Callers : HoldsHandle(c) /\ ret[c].ch = i}

\* A changed() of caller c completed in this step
ChangedReturned(c) == seen'[c] # seen[c] \/ res'[c] # res[c]

\* C18: every handle has a seen version of its own.  A publish leaves every
\* handle of the subscription with a version it has not seen, whatever the
\* number of handles; a handle in that position completes its next changed()
\* with Ok, also when the reducer has exited since; and a changed() that
\* completes on one handle changes nothing for any other handle.
C18_EveryHandleIsNotified ==
    /\ [](\A c \in Callers :
            HoldsHandle(c) =>
               /\ seen[c] <= subs[ret[c].ch].version
               /\ seen[c] # subs[ret[c].ch].version => ENABLED Changed(c))
    /\ [][\A i \in SubIds :
            Published(i) =>
               \A c \in Holders(i) :
                  seen'[c] = seen[c] /\ seen'[c] < subs'[i].version]_vars
    /\ [][\A c \in Callers :
            ChangedReturned(c) =>
               /\ HoldsHandle(c)
               /\ seen[c] # subs[ret[c].ch].version =>
                     res'[c].last = "Ok" /\ seen'[c] = subs[ret[c].ch].version
               /\ seen[c] = subs[ret[c].ch].version =>
                     res'[c].last = "Err" /\ SenderDropped(ret[c].ch)
               /\ \A d \in Callers \ {c} :
                     seen'[d] = seen[d] /\ res'[d] = res[d]]_vars

\* One publish, two handles, each of which got its Ok
C18_Witness ==
    /\ subs[1].version = 1
    /\ Cardinality(Holders(1)) >= 2
    /\ \A c \in Holders(1) : res[c].last = "Ok" /\ seen[c] = 1

\* C19: the channel keeps the latest value only.  The changed() of a handle
\* that has not seen k publishes, k >= 1, returns Ok once and marks all of them
\* seen, so that its next changed() is pending until a further publish (or
\* fails when the reducer has exited); a borrow returns the value of the last
\* publish, whatever the handle has seen; and a publish is a step of the
\* reducer alone, which leaves what the handles have seen, read and been
\* returned as it is (it is taken while handles lag: C19_Witness).
C19_LatestValueOnly ==
    /\ [][\A c \in Callers :
            seen'[c] # seen[c] =>
               /\ seen'[c] = subs[ret[c].ch].version
               /\ res'[c].oks = res[c].oks + 1]_vars
    /\ [](\A c \in Callers :
            HoldsHandle(c) /\ seen[c] = subs[ret[c].ch].version =>
               /\ ~SenderDropped(ret[c].ch) => ~ENABLED Changed(c)
               /\ res[c].oks <= seen[c])
    /\ [][\A c \in Callers :
            read'[c] # read[c] =>
               read'[c] = Some([version |-> subs[ret[c].ch].version,
                                value |-> subs[ret[c].ch].value])]_vars
    /\ [][subs'[1].version # subs[1].version => UNCHANGED readerVars]_vars

\* Two publishes went by before the handle's first changed(), which returned
\* Ok once; the borrow after it read the second snapshot
C19_Witness ==
    \E c \in Holders(1) :
        /\ subs[1].version = 2
        /\ seen[c] = 2
        /\ res[c] = [last |-> "Ok", oks |-> 1]
        /\ read[c] = Some(Snapshot(1))
        /\ subs[1].value.tasks[1].target = Some("svc.b")

\* C20: what a handle borrows never goes back in publish order.  A publish
\* raises the version of the slot by one and nothing lowers it; the snapshot a
\* handle borrows after the snapshot of publish k is that of a publish j >= k,
\* and no borrowed snapshot is ahead of the slot.
C20_BorrowsNeverGoBack ==
    /\ [][\A i \in DOMAIN subs :
            i \in DOMAIN subs' /\ subs'[i].version >= subs[i].version]_vars
    /\ [][\A c \in Callers :
            read[c] # None /\ read'[c] # None =>
               /\ ret'[c] = ret[c]
               /\ Unwrap(read'[c]).version >= Unwrap(read[c]).version]_vars
    /\ [](\A c \in Callers :
            read[c] # None =>
               /\ HoldsHandle(c)
               /\ Unwrap(read[c]).version <= subs[ret[c].ch].version)

\* A handle that borrowed the snapshot of the first publish and another that
\* borrowed that of the second, which differs
C20_Witness ==
    \E c, d \in Holders(1) :
        /\ subs[1].version = 2
        /\ read[c] # None /\ Unwrap(read[c]).version = 1
        /\ read[d] = Some(Snapshot(1))
        /\ Unwrap(read[c]).value # subs[1].value

----------------------------------------------------------------------------
(* Properties of the handles of a reducer that has exited                  *)

\* C21: once the reducer of a subscription has exited, the slot of its channel
\* keeps its version and value, so no handle observes a new value, and the
\* changed() of every handle on it eventually returns an error.  When the
\* stream ended before its first message, the handle borrows the empty state,
\* no changed() on it ever returned Ok, and the entry of the subscription is
\* eventually removed from the registry.
C21_ExitedReducerClosesHandles ==
    /\ [][\A i \in SubIds :
            SenderDropped(i) =>
               /\ subs'[i].pc # "running"
               /\ subs'[i].version = subs[i].version
               /\ subs'[i].value = subs[i].value]_vars
    /\ \A c \in Callers :
          (HoldsHandle(c) /\ SenderDropped(ret[c].ch)) ~> (res[c].last = "Err")
    /\ [](\A c \in Callers :
            HoldsHandle(c) /\ SenderDropped(ret[c].ch)
              /\ subs[ret[c].ch].version = 0 =>
                 /\ subs[ret[c].ch].value = DefaultConsoleState
                 /\ res[c].oks = 0
                 /\ read[c] \in {None, Some([version |-> 0,
                                             value |-> DefaultConsoleState])})
    /\ \A i \in Callers :
          (i \in SubIds /\ SenderDropped(i))
             ~> (i \in SubIds /\ subs[i].pc = "done"
                   /\ (subs[i].addr \notin DOMAIN inner \/ inner[subs[i].addr] # i))

\* The stream of the first subscription ended at once: its handle borrowed the
\* empty state, changed() returned the error and the registry is empty
C21_Witness ==
    \E c \in Callers :
        /\ ret[c] = OkRet(1)
        /\ subs[1].pc = "done" /\ subs[1].version = 0
        /\ read[c] = Some([version |-> 0, value |-> DefaultConsoleState])
        /\ res[c] = [last |-> "Err", oks |-> 0]
        /\ inner = EmptyMap

\* The channel of a running reducer always has a receiver: the clone stored in
\* the registry entry, which only the reducer's own cleanup removes.  So no
\* tx.send of a running reducer fails.
RunningReducerHasReceiver ==
    \A i \in SubIds : subs[i].pc = "running" => RxCount(i) >= 1

----------------------------------------------------------------------------
(* Properties of the registry's keys                                       *)

PlainPort == Addr("127.0.0.1", "6669")
PaddedPort == Addr("127.0.0.1", "06669")

\* C27: keys are compared as literal (ip, port) strings.  Port "6669" and port
\* "06669" on the same ip are two keys: their entries are distinct
\* subscriptions, each with a reducer of its own, a call is answered only by
\* the subscription of the very key it gave, every subscription was opened by
\* a dial of its own, and the exit of a reducer leaves every other key of
\* the map and its entry alone.
C27_KeysAreLiteral ==
    /\ [](PlainPort \in DOMAIN inner /\ PaddedPort \in DOMAIN inner =>
            /\ inner[PlainPort] # inner[PaddedPort]
            /\ subs[inner[PlainPort]].addr = PlainPort
            /\ subs[inner[PaddedPort]].addr = PaddedPort)
    /\ [](\A c \in Callers :
            ret[c].kind = "Ok" => subs[ret[c].ch].addr = addr[c])
    /\ [][\A c \in Callers :
            pc[c] = "lock" /\ pc'[c] = "done" /\ ret'[c].kind = "Ok"
              /\ addr[c] \notin DOMAIN inner => FALSE]_vars
    /\ [][\A c \in Callers :
            pc[c] = "open" /\ ret'[c].kind = "Ok" =>
               /\ dialed[c]
               /\ Len(subs') = Len(subs) + 1
               /\ ret'[c].ch = Len(subs')
               /\ subs'[Len(subs')].addr = addr[c]]_vars
    /\ [][\A i \in SubIds :
            subs[i].pc = "cleanup" /\ subs'[i].pc = "done" =>
               \A k \in DOMAIN inner :
                  k # subs[i].addr => k \in DOMAIN inner' /\ inner'[k] = inner[k]]_vars

\* Both spellings were subscribed, each call dialed, and the reducer of the
\* plain spelling has exited and removed its key: the other one is still there
C27_Witness ==
    \E c, d \in Callers :
        /\ addr[c] = PlainPort /\ addr[d] = PaddedPort
        /\ dialed[c] /\ dialed[d]
        /\ ret[c].kind = "Ok" /\ ret[d].kind = "Ok" /\ ret[c].ch # ret[d].ch
        /\ subs[ret[c].ch].pc = "done"
        /\ subs[ret[d].ch].pc = "running"
        /\ DOMAIN inner = {PaddedPort}
        /\ inner[PaddedPort] = ret[d].ch

----------------------------------------------------------------------------
(* Properties of the metadata and the stats of the published snapshots      *)

\* The new_metadata entries of the n-th message of the history
MetadataEntries(n) ==
    IF IsSome(log[n].msg.new_metadata) THEN Unwrap(log[n].msg.new_metadata).metadata
    ELSE <<>>

\* The metadata the most recent entry for id among the first n messages of the
\* history carries, None when none of them names id
RECURSIVE LastMetadata(_, _)
LastMetadata(id, n) ==
    IF n = 0 THEN None
    ELSE LET hits == {k \in 1 .. Len(MetadataEntries(n)) :
                         MetadataEntries(n)[k].id = Some(id)}
         IN  IF hits = {} THEN LastMetadata(id, n - 1)
             ELSE Some(MetadataFrom(
                         MetadataEntries(n)[CHOOSE k \in hits :
                                               \A j \in hits : j <= k]).val)

\* C29: the metadata ids of the published snapshots only grow: an id present in
\* one snapshot is present in every later snapshot of the reducer; the ids
\* present are exactly those some folded message named, and the value stored
\* under an id is the one of the most recent entry for it (a duplicate id
\* overwrites).
C29_MetadataOnlyGrows ==
    /\ [][DOMAIN subs[1].value.metadata \subseteq DOMAIN subs'[1].value.metadata]_vars
    /\ [](\A id \in MetaIds :
            IF id \in DOMAIN subs[1].value.metadata
            THEN LastMetadata(id, subs[1].version) = Some(subs[1].value.metadata[id])
            ELSE LastMetadata(id, subs[1].version) = None)

\* The id was announced with one target and announced again with another: the
\* third snapshot still holds the id, with the later value
C29_Witness ==
    /\ subs[1].version = 3
    /\ log[1].msg = AnnounceUpdate
    /\ log[2].msg = RetargetUpdate
    /\ log[3].msg = EmptyUpdate
    /\ DOMAIN subs[1].value.metadata = {7}
    /\ subs[1].value.metadata[7].target = "svc.b"

\* The entities message n of the history announces / the stats entries it
\* carries, for tasks and for resources
AnnouncedIn(kind, n) ==
    IF kind = "task" THEN Unwrap(log[n].msg.task_update).new_tasks
    ELSE Unwrap(log[n].msg.resource_update).new_resources

StatsCarried(kind, n) ==
    IF kind = "task" THEN Unwrap(log[n].msg.task_update).stats_update
    ELSE Unwrap(log[n].msg.resource_update).stats_update

\* The stats the first n messages of the history give the entity id: those of
\* the most recent stats_update entry for id that is not older than the most
\* recent announcement of id, None when there is no such entry
RECURSIVE StatsGiven(_, _, _)
StatsGiven(kind, id, n) ==
    IF n = 0 THEN None
    ELSE IF id \in DOMAIN StatsCarried(kind, n)
    THEN Some(IF kind = "task" THEN TaskStatsFrom(StatsCarried(kind, n)[id]).val
              ELSE ResourceStatsFrom(StatsCarried(kind, n)[id]).val)
    ELSE IF \E k \in 1 .. Len(AnnouncedIn(kind, n)) : AnnouncedIn(kind, n)[k].id = Some(id)
    THEN None
    ELSE StatsGiven(kind, id, n - 1)

\* C30: the state never fabricates stats: in every published snapshot a task
\* or resource has stats only if a stats_update entry for its id was applied
\* at or after the most recent announcement of the id, and then its stats are
\* those of the last such entry; otherwise it has none.
C30_StatsAreNeverFabricated ==
    /\ \A id \in DOMAIN subs[1].value.tasks :
          subs[1].value.tasks[id].stats = StatsGiven("task", id, subs[1].version)
    /\ \A id \in DOMAIN subs[1].value.resources :
          subs[1].value.resources[id].stats = StatsGiven("resource", id, subs[1].version)

\* An entity got stats, was announced again and has none in the snapshot of
\* that message; the next message gives it stats again
C30_Witness ==
    /\ subs[1].version = 3
    /\ log[1].msg = AnnounceWithStatsUpdate
    /\ log[2].msg = ReannounceUpdate
    /\ log[3].msg = StatsUpdate
    /\ subs[1].value.tasks[1].stats = Some(TaskStatsFrom(WireLiveTaskStats).val)
    /\ subs[1].value.resources[1].stats
         = Some(ResourceStatsFrom(WireResourceStats(None)).val)

----------------------------------------------------------------------------
(* Task::state                                                             *)

\* Every combination of present and absent stats, dropped_at, last_poll_started
\* and last_poll_ended
ProbeStats ==
    {None}
    \cup {Some([dropped_at |-> d, created_at |-> None, polls |-> 1, busy_time |-> None,
                last_poll_started |-> s, last_poll_ended |-> e]) :
            d \in {None} \cup {Some(t) : t \in DropTimes},
            s \in {None} \cup {Some(t) : t \in 0 .. MaxPoll},
            e \in {None} \cup {Some(t) : t \in 0 .. MaxPoll}}

ProbeTasks ==
    {[TaskFrom(WireTask(Some(1), Some(7), Some(WireLocation))).val EXCEPT !.stats = st] :
       st \in ProbeStats}

\* task.state() is called
CallState(task) ==
    /\ probe' = [task |-> Some(task), state |-> TaskState(task)]
    /\ UNCHANGED <<coreVars, now, log, sess, keys>>

NextState == \E task \in ProbeTasks : CallState(task)

SpecState == Init /\ [][NextState]_vars

\* C28 as stated: Completed iff stats are present with dropped_at set; otherwise
\* Running iff stats are present and last_poll_started > last_poll_ended, a
\* comparison with a missing value being false; otherwise Idle.
C28_StateByPollTimes ==
    probe.task # None =>
       LET stats == Unwrap(probe.task).stats
       IN  probe.state =
              IF IsSome(stats) /\ IsSome(Unwrap(stats).dropped_at) THEN "Completed"
              ELSE IF /\ IsSome(stats)
                      /\ IsSome(Unwrap(stats).last_poll_started)
                      /\ IsSome(Unwrap(stats).last_poll_ended)
                      /\ Unwrap(Unwrap(stats).last_poll_started)
                           > Unwrap(Unwrap(stats).last_poll_ended)
              THEN "Running"
              ELSE "Idle"

\* C28 (amended): Completed iff stats are present with dropped_at set; otherwise
\* Running iff stats are present, last_poll_started is present and
\* last_poll_ended is missing or earlier than it (a missing value compares
\* below every present one); otherwise Idle.
C28_StateByPollTimesMissingIsLeast ==
    probe.task # None =>
       LET stats == Unwrap(probe.task).stats
       IN  probe.state =
              IF IsSome(stats) /\ IsSome(Unwrap(stats).dropped_at) THEN "Completed"
              ELSE IF /\ IsSome(stats)
                      /\ IsSome(Unwrap(stats).last_poll_started)
                      /\ \/ ~IsSome(Unwrap(stats).last_poll_ended)
                         \/ Unwrap(Unwrap(stats).last_poll_started)
                              > Unwrap(Unwrap(stats).last_poll_ended)
              THEN "Running"
              ELSE "Idle"

\* A task in its first poll: started, never ended, not dropped
C28_Witness ==
    /\ probe.task # None
    /\ IsSome(Unwrap(probe.task).stats)
    /\ Unwrap(Unwrap(probe.task).stats).dropped_at = None
    /\ Unwrap(Unwrap(probe.task).stats).last_poll_started = Some(1)
    /\ Unwrap(Unwrap(probe.task).stats).last_poll_ended = None
    /\ probe.state = "Running"

----------------------------------------------------------------------------
(* Properties of a paused view                                             *)

\* The live state after the first n messages the view has handled: the
\* Update messages among them applied in order, each at the clock reading of
\* its call, whatever was toggled in between
RECURSIVE LiveAfter(_)
LiveAfter(n) ==
    IF n = 0 THEN NoView.state
    ELSE IF log[n].msg.kind = "Update"
    THEN LET applied == ApplyUpdate(LiveAfter(n - 1), log[n].msg.update, log[n].at)
         IN  IF applied.ok THEN applied.val ELSE NoView.state
    ELSE LiveAfter(n - 1)

\* The positions of the TogglePlayPause messages among the first n
Toggles(n) == {k \in 1 .. n : log[k].msg.kind = "TogglePlayPause"}

\* C25: while a view is paused (an odd number of toggles so far), what it
\* renders is the state it had when the last toggle paused it, whatever
\* Update messages came after; these are still applied to the live state,
\* which is always the fold of every Update handled; and when it is not
\* paused it renders the live state, updates received during a pause included.
C25_PausedViewRendersFrozenState ==
    ~sess[1].view.panicked =>
       /\ sess[1].view.state = LiveAfter(Len(log))
       /\ IsSome(sess[1].view.paused_state) <=> Cardinality(Toggles(Len(log))) % 2 = 1
       /\ Render(sess[1].view) =
             IF Cardinality(Toggles(Len(log))) % 2 = 1
             THEN Html(LiveAfter(CHOOSE k \in Toggles(Len(log)) :
                                    \A j \in Toggles(Len(log)) : j <= k),
                       TRUE)
             ELSE Html(LiveAfter(Len(log)), FALSE)

\* The view was paused after an announcement and then handled a metadata
\* overwrite: it renders the row with the old target, the live state has the new
C25_Witness ==
    /\ Len(log) = 3
    /\ log[1].msg = MsgUpdate(UpdateFrom(AnnounceUpdate).val)
    /\ log[2].msg = TogglePlayPause
    /\ log[3].msg = MsgUpdate(UpdateFrom(RetargetUpdate).val)
    /\ Render(sess[1].view).button = "Play"
    /\ Render(sess[1].view).rows[1].target = Some("svc.a")
    /\ sess[1].view.state.resources[1].target = Some("svc.b")

----------------------------------------------------------------------------
(* Properties of the sessions of a page                                    *)

\* A termination signal is on its way to the session of page p: in the
\* mailbox, with the forwarding task, sent to the session and not handled
\* yet, or about to be produced because the mailbox is closed
TerminationPending(p) ==
    \/ \E k \in 1 .. Len(sess[p].conn_rx) : sess[p].conn_rx[k] \in {StreamEnded, MsgError}
    \/ sess[p].carrying \in {Some(StreamEnded), Some(MsgError)}
    \/ \E k \in sess[p].applied + 1 .. Len(sess[p].emitted) :
          sess[p].emitted[k] \in {StreamEnded, MsgError}
    \/ sess[p].watcher = "final"
    \/ sess[p].conn_closed /\ sess[p].watcher # "done"

\* C23: when the upstream subscription of a page has terminated, for whatever
\* cause (RPC open rejected, end of stream, upstream error, a message that
\* fails to convert), its session has left the connecting / connected render
\* or a termination signal is on its way to it.
C23_TerminationReachesSession ==
    \A p \in Pages :
        /\ sess[p].proc = "done"
        /\ sess[p].cause \in {"rpc_open", "end_of_stream", "upstream_error", "conversion"}
        /\ sess[p].conn_alive
        => \/ sess[p].conn \in {"StreamEnded", "Error"}
           \/ TerminationPending(p)

\* C24: when the forwarding task of a session has ended, the last two events
\* it sent into the session are Disconnected and then Error, each sent once.
C24_WatcherEmitsDisconnectedThenError ==
    \A p \in Pages :
        sess[p].watcher = "done" /\ sess[p].conn_alive =>
           /\ Len(sess[p].emitted) >= 2
           /\ sess[p].emitted[Len(sess[p].emitted) - 1].kind = "Disconnected"
           /\ sess[p].emitted[Len(sess[p].emitted)].kind = "Error"
           /\ \A k \in 1 .. Len(sess[p].emitted) - 2 :
                 sess[p].emitted[k].kind \notin {"Disconnected", "Error"}

----------------------------------------------------------------------------
(* Properties of the cancellation of a page's task                         *)

LiveTasks == {p \in Pages : ProcLive(p)}
LiveViews == {p \in Pages : sess[p].view_alive}

----------------------------------------------------------------------------
(* Properties of the registry entry and the life of its reducer            *)

\* The registry's entry for the address of subscription i is that subscription
EntryOf(i) == subs[i].addr \in DOMAIN inner /\ inner[subs[i].addr] = i

\* C31: every handle subscribe returns has a live publisher at the moment it
\* is returned: the reducer of its subscription is running, it has not
\* finished and is not waiting for the lock to remove its entry.
C31_ReturnedHandleHasLivePublisher ==
    [][\A c \in Callers :
          pc[c] # "done" /\ pc'[c] = "done" /\ ret'[c].kind = "Ok"
            => subs'[ret'[c].ch].pc = "running"]_vars

\* C32: the cleanup of a reducer removes the entry its own subscribe call
\* inserted: when it runs that entry is in the map, under its address, and no
\* entry of the map is ever replaced by a later subscribe, so what the cleanup
\* removes is never the entry of a later subscription.
C32_CleanupRemovesOwnEntry ==
    /\ [][\A i \in SubIds :
            subs[i].pc = "cleanup" /\ subs'[i].pc = "done" =>
               /\ EntryOf(i)
               /\ subs[i].addr \notin DOMAIN inner'
               /\ \A j \in SubIds : j > i => ~(subs[j].addr = subs[i].addr /\ EntryOf(j))]_vars
    /\ [][\A a \in DOMAIN inner : a \in DOMAIN inner' => inner'[a] = inner[a]]_vars
    /\ [](\A i \in SubIds : subs[i].pc = "cleanup" => EntryOf(i))

\* The first subscription of an address has exited and removed its entry; a
\* later subscribe for the same address inserted the entry of the second,
\* whose reducer has exited as well and is about to remove it
C32_Witness ==
    /\ Len(subs) = 2
    /\ subs[1].addr = subs[2].addr
    /\ subs[1].pc = "done"
    /\ subs[2].pc = "cleanup"
    /\ inner[subs[2].addr] = 2

\* C33: whenever the registry lock is free, a reducer is alive (running, or
\* returned and waiting to remove its entry) only if the registry holds an
\* entry for its address that reads its broadcaster.
C33_AliveReducerHasEntry ==
    lock = None =>
       \A i \in SubIds : subs[i].pc \in {"running", "cleanup"} => EntryOf(i)

\* The lock is free and two reducers are alive, one per address, each with
\* its entry; a caller has dropped its handle
C33_Witness ==
    /\ lock = None
    /\ Len(subs) = 2
    /\ subs[1].addr # subs[2].addr
    /\ subs[1].pc = "running" /\ subs[2].pc = "cleanup"
    /\ EntryOf(1) /\ EntryOf(2)
    /\ \E c \in Callers : pc[c] = "dropped"

\* C34: a message whose stats carry a dropped_at later than the reducer's
\* clock at the reap step does not leave the subscription stuck: no entry of
\* the registry belongs to a reducer that ended on it.
C34_FutureDropLeavesNoDeadEntry ==
    \A i \in SubIds : subs[i].pc = "panicked" => ~EntryOf(i)

\* C35: a reducer stops consuming only because its stream ended, failed or
\* carried a message that does not convert, never because a publish failed,
\* whether or not any caller still holds a handle.
C35_ReducerStopsOnlyOnUpstream ==
    [][\A i \in SubIds :
          subs[i].pc = "running" /\ subs'[i].pc # "running" =>
             /\ subs'[i].pc = "cleanup"
             /\ subs'[i].exit # "failed to send new state"]_vars

----------------------------------------------------------------------------
(* Properties of the reaping and the clock                                 *)

\* Entity e of a snapshot was dropped at least the grace window before t
Stale(e, t) ==
    /\ IsSome(e.stats)
    /\ IsSome(Unwrap(e.stats).dropped_at)
    /\ t - Unwrap(Unwrap(e.stats).dropped_at) >= GraceSecs

\* C36: reaping happens only as part of a reducer step: a step in which the
\* clock advances leaves the published snapshot, its version and the
\* reducer's state as they are, so an entity whose dropped_at has become
\* older than the grace window stays in the snapshot until the next message;
\* and a snapshot holds no entity that was already that old when it was sent.
C36_ReapOnlyInReducerStep ==
    /\ [][now' # now => subs' = subs]_vars
    /\ [][subs'[1].value # subs[1].value => Len(log') = Len(log) + 1]_vars
    /\ [](\A id \in DOMAIN subs[1].value.tasks :
            ~Stale(subs[1].value.tasks[id], subs[1].sent_at))

\* The snapshot holds a task dropped the whole grace window ago: it was
\* inside the window when the snapshot was sent, and the clock has advanced
C36_Witness ==
    /\ subs[1].pc = "running"
    /\ 1 \in DOMAIN subs[1].value.tasks
    /\ Stale(subs[1].value.tasks[1], now)
    /\ subs[1].sent_at < now

----------------------------------------------------------------------------
(* The registry lock                                                       *)

\* C37: the subscribe calls and the reducers sharing the registry lock never
\* deadlock: the lock is only ever held by a call waiting for its connect or
\* its RPC open, and, those returning and the lock serving its waiters, every
\* subscribe call returns and every reducer that returned completes its
\* cleanup.
C37_NoDeadlockOnRegistryLock ==
    /\ [](\A c \in Callers :
            lock = Some(<<"subscribe", c>>) <=> pc[c] \in {"connect", "open"})
    /\ \A c \in Callers : (pc[c] \in {"lock", "connect", "open"}) ~> (pc[c] = "done")
    /\ \A i \in Callers :
          (i \in SubIds /\ subs[i].pc = "cleanup") ~> (i \in SubIds /\ subs[i].pc = "done")

\* A call holds the lock across its RPC open while the cleanup of a reducer
\* that returned, started by an earlier call, waits for it
C37_Witness ==
    \E c \in Callers :
        /\ pc[c] = "open" /\ lock = Some(<<"subscribe", c>>)
        /\ \E i \in SubIds : subs[i].pc = "cleanup" /\ EntryOf(i)

----------------------------------------------------------------------------
(* The Error state of the ConnectionState view                             *)

\* C38: once the ConnectionState of a session has entered Error it stays in
\* Error for as long as the session lives: no later message, the StreamEnded
\* of the forwarding task included, replaces it.
C38_ErrorStateIsKept ==
    [][\A p \in Pages :
          sess[p].conn = "Error" /\ sess'[p].conn_alive => sess'[p].conn = "Error"]_vars

----------------------------------------------------------------------------
(* TableViewKeybinds                                                       *)

UsizeMax == 2 ^ UsizeBits - 1

KeyNames == {"k", "j", "Enter", " ", "?", "t", "r", "x"}

\* What a call leaves of the struct when it returned
Called(name, idx, new_max, returned) ==
    [keys EXCEPT !.selected_idx = idx, !.calls = @ + 1, !.call = name,
                 !.new_max = new_max, !.returned = returned]

\* What a call leaves when an arithmetic check of the build panicked
Panicked(name, new_max) ==
    [keys EXCEPT !.calls = @ + 1, !.call = name, !.new_max = new_max,
                 !.returned = None, !.panicked = TRUE]

\* clamp_selected_idx(new_max): new_max - 1 is a usize subtraction; with
\* new_max = 0 it panics in a build with overflow checks and wraps to
\* usize::MAX in a build without
clamp_selected_idx(new_max) ==
    /\ ~keys.panicked
    /\ keys.calls < MaxKeys
    /\ \E overflow_checks \in BOOLEAN :
         keys' =
           IF ~IsSome(keys.selected_idx) THEN Called("clamp", None, Some(new_max), None)
           ELSE IF new_max = 0 /\ overflow_checks THEN Panicked("clamp", Some(new_max))
           ELSE Called("clamp",
                       Some(IF (new_max - 1) % 2 ^ UsizeBits < Unwrap(keys.selected_idx)
                            THEN (new_max - 1) % 2 ^ UsizeBits
                            ELSE Unwrap(keys.selected_idx)),
                       Some(new_max), None)
    /\ UNCHANGED <<coreVars, now, log, sess, probe>>

\* update(data) with the key of the event: "k" and "j" move the selection,
\* *idx += 1 being a usize addition, "Enter" returns it, "?" toggles the help,
\* " ", "t" and "r" return their updates and any other key nothing
KeybindsUpdate(key) ==
    /\ ~keys.panicked
    /\ keys.calls < MaxKeys
    /\ \E overflow_checks \in BOOLEAN :
         keys' =
           CASE key = "k" ->
                  Called(key,
                         IF IsSome(keys.selected_idx) /\ Unwrap(keys.selected_idx) # 0
                         THEN Some(Unwrap(keys.selected_idx) - 1)
                         ELSE keys.selected_idx,
                         None, None)
             [] key = "j" ->
                  IF ~IsSome(keys.selected_idx) THEN Called(key, Some(0), None, None)
                  ELSE IF Unwrap(keys.selected_idx) = UsizeMax /\ overflow_checks
                  THEN Panicked(key, None)
                  ELSE Called(key, Some((Unwrap(keys.selected_idx) + 1) % 2 ^ UsizeBits),
                              None, None)
             [] key = "Enter" ->
                  Called(key, keys.selected_idx, None,
                         IF IsSome(keys.selected_idx)
                         THEN Some([kind |-> "Selected", idx |-> Unwrap(keys.selected_idx)])
                         ELSE None)
             [] key = " " ->
                  Called(key, keys.selected_idx, None,
                         Some([kind |-> "TogglePlayPause", idx |-> 0]))
             [] key = "?" ->
                  [Called(key, keys.selected_idx, None, None)
                     EXCEPT !.show_key_binds = ~keys.show_key_binds]
             [] key = "t" ->
                  Called(key, keys.selected_idx, None, Some([kind |-> "GotoTasks", idx |-> 0]))
             [] key = "r" ->
                  Called(key, keys.selected_idx, None,
                         Some([kind |-> "GotoResources", idx |-> 0]))
             [] OTHER -> Called(key, keys.selected_idx, None, None)
    /\ UNCHANGED <<coreVars, now, log, sess, probe>>

\* Key events and clamps on one TableViewKeybinds
NextKeys ==
    \/ \E key \in KeyNames : KeybindsUpdate(key)
    \/ \E new_max \in 0 .. MaxRows : clamp_selected_idx(new_max)

SpecKeys == Init /\ [][NextKeys]_vars

\* C39: after any sequence of "j" and "k" key events followed by
\* clamp_selected_idx(n), for every n from 0 up, no subtraction or addition
\* has gone out of the range of usize and the selected index is unset or less
\* than n.
C39_ClampedIndexBelowRowCount ==
    /\ ~keys.panicked
    /\ IsSome(keys.selected_idx) => Unwrap(keys.selected_idx) \in 0 .. UsizeMax
    /\ keys.call = "clamp" /\ IsSome(keys.selected_idx)
         => Unwrap(keys.selected_idx) < Unwrap(keys.new_max)

\* "k" never moves the index below 0: it leaves an index of 0 as it is and
\* takes one from any other
KeyKStaysAtZero ==
    [][keys'.call = "k" /\ keys'.calls = keys.calls + 1 /\ IsSome(keys.selected_idx) =>
          /\ ~keys'.panicked
          /\ Unwrap(keys'.selected_idx) =
               (IF Unwrap(keys.selected_idx) = 0 THEN 0 ELSE Unwrap(keys.selected_idx) - 1)]_vars

====
